---- MODULE Spec2Model ----
(***************************************************************************)
(* PayPal MCP server (src/src/index.ts): the credential cache              *)
(* (getAccessToken), the per-tool validators and the call-tool handler.    *)
(*                                                                         *)
(* Untyped JSON values are tagged records:                                 *)
(*   [t |-> "string", s], [t |-> "number", n], [t |-> "boolean", b],       *)
(*   [t |-> "null"], [t |-> "undefined"], [t |-> "object", f] with f a     *)
(*   function from property names to values, [t |-> "array", e] with e a   *)
(*   sequence of values.                                                   *)
(***************************************************************************)
EXTENDS Integers, Sequences, FiniteSets, TLC

VARIABLES
  accessToken,  \* PayPalServer.accessToken
  inv,          \* the invocations of the call-tool handler in progress
  fetched,      \* history: the access tokens that completed token POSTs delivered
  vtool, vraw, vstep, vres, vreq, \* a validator applied to one raw value
  listed        \* the tool names of the latest list-tools response

vars == <<accessToken, inv, fetched, vtool, vraw, vstep, vres, vreq, listed>>

---------------------------------------------------------------------------
(* JavaScript values                                                       *)

Str(s) == [t |-> "string", s |-> s]

Num(n) == [t |-> "number", n |-> n]

Null == [t |-> "null"]

Undef == [t |-> "undefined"]

EmptyF == [k \in {} |-> Null]

Obj(f) == [t |-> "object", f |-> f]

Arr(e) == [t |-> "array", e |-> e]

\* typeof v
typeof(v) ==
  CASE v.t = "string" -> "string"
    [] v.t = "number" -> "number"
    [] v.t = "boolean" -> "boolean"
    [] v.t = "undefined" -> "undefined"
    [] OTHER -> "object"

\* ToBoolean(v): null, undefined, "", 0 and false are falsy
Truthy(v) ==
  CASE v.t = "null" -> FALSE
    [] v.t = "undefined" -> FALSE
    [] v.t = "string" -> v.s # ""
    [] v.t = "number" -> v.n # 0
    [] v.t = "boolean" -> v.b
    [] OTHER -> TRUE

\* Array.isArray(v)
IsArray(v) == v.t = "array"

\* v is null or undefined: reading a property of it throws a TypeError
Nullish(v) == v.t \in {"null", "undefined"}

\* v[k] for a named property k of a value that is not null or undefined
Get(v, k) ==
  IF v.t = "object" /\ k \in DOMAIN v.f THEN v.f[k] ELSE Undef

\* an object literal { ...f, k: v } written only when cond holds
Opt(cond, k, v) == IF cond THEN k :> v ELSE EmptyF

Min(S) == CHOOSE x \in S : \A y \in S : x <= y

---------------------------------------------------------------------------
(* Errors and validator results                                            *)

\* new McpError(code, message); the SDK's class is not part of the repository,
\* the message is kept as the constructor receives it
McpError(code, message) ==
  [cls |-> "McpError", code |-> code, message |-> message,
   props |-> {"code", "message"}, upstream |-> Undef]

\* the TypeError the runtime throws on a property read of null or undefined
TypeError ==
  [cls |-> "TypeError", code |-> "none",
   message |-> "Cannot read properties of null",
   props |-> {"message"}, upstream |-> Undef]

\* new Error(message)
PlainError(message) ==
  [cls |-> "Error", code |-> "none", message |-> message,
   props |-> {"message"}, upstream |-> Undef]

\* the error axios rejects with: message is the transport's text, upstream is
\* error.response?.data?.message
AxiosError(message, upstream) ==
  [cls |-> "AxiosError", code |-> "none", message |-> message,
   props |-> {"isAxiosError", "message", "response"}, upstream |-> upstream]

isAxiosError(error) == "isAxiosError" \in error.props

Ok(v) == [st |-> "ok", v |-> v]

Throw(e) == [st |-> "throw", e |-> e]

InvalidParams(message) == Throw(McpError("InvalidParams", message))

\* arr.map(callback), given the callback's result on each element in order:
\* the first element whose callback throws ends the map
MapArr(results) ==
  LET bad == {i \in DOMAIN results : results[i].st = "throw"}
  IN IF bad = {} THEN Ok(Arr([i \in DOMAIN results |-> results[i].v]))
     ELSE results[Min(bad)]

\* typeof args !== 'object' || !args
NotAnObject(args) == typeof(args) # "object" \/ ~Truthy(args)

IsStr(v) == typeof(v) = "string"

IsNum(v) == typeof(v) = "number"

\* !v || typeof v !== 'object'
NoObjectAt(v) == ~Truthy(v) \/ typeof(v) # "object"

---------------------------------------------------------------------------
(* Validators                                                              *)

validatePaymentToken(args) ==
  IF NotAnObject(args) THEN InvalidParams("Invalid payment token data")
  ELSE IF NoObjectAt(Get(args, "customer")) \/ NoObjectAt(Get(args, "payment_source"))
  THEN InvalidParams("Missing required payment token fields")
  ELSE
    LET customer == Get(args, "customer")
        source == Get(args, "payment_source")
        card == Get(source, "card")
        paypal == Get(source, "paypal")
        cardOk == /\ Truthy(card) /\ typeof(card) = "object"
                  /\ IsStr(Get(card, "name")) /\ IsStr(Get(card, "number"))
                  /\ IsStr(Get(card, "expiry")) /\ IsStr(Get(card, "security_code"))
        paypalOk == /\ Truthy(paypal) /\ typeof(paypal) = "object"
                    /\ IsStr(Get(paypal, "email_address"))
    IN IF ~IsStr(Get(customer, "id")) THEN InvalidParams("Invalid customer ID")
       ELSE Ok(Obj([
         customer |-> Obj(("id" :> Get(customer, "id"))
            @@ Opt(IsStr(Get(customer, "email_address")), "email_address",
                   Get(customer, "email_address"))),
         payment_source |-> Obj(
            Opt(cardOk, "card", Obj([name |-> Get(card, "name"),
                                     number |-> Get(card, "number"),
                                     expiry |-> Get(card, "expiry"),
                                     security_code |-> Get(card, "security_code")]))
            @@ Opt(paypalOk, "paypal",
                   Obj(("email_address" :> Get(paypal, "email_address"))
                       @@ Opt(IsStr(Get(paypal, "account_id")), "account_id",
                              Get(paypal, "account_id")))))]))

\* the callback of payment.transactions.map
validateTransaction(transaction) ==
  IF Nullish(transaction) THEN Throw(TypeError)
  ELSE IF NoObjectAt(Get(transaction, "amount"))
  THEN InvalidParams("Invalid transaction amount")
  ELSE
    LET amount == Get(transaction, "amount")
    IN IF ~IsStr(Get(amount, "total")) \/ ~IsStr(Get(amount, "currency"))
       THEN InvalidParams("Invalid amount fields")
       ELSE Ok(Obj(("amount" :> Obj([total |-> Get(amount, "total"),
                                     currency |-> Get(amount, "currency")]))
             @@ Opt(IsStr(Get(transaction, "description")), "description",
                    Get(transaction, "description"))))

validatePayment(args) ==
  IF NotAnObject(args) THEN InvalidParams("Invalid payment data")
  ELSE IF \/ ~IsStr(Get(args, "intent"))
          \/ NoObjectAt(Get(args, "payer"))
          \/ ~IsArray(Get(args, "transactions"))
          \/ Len(Get(args, "transactions").e) = 0
  THEN InvalidParams("Missing required payment fields")
  ELSE
    LET payer == Get(args, "payer")
        transactions == MapArr([x \in DOMAIN Get(args, "transactions").e |->
            validateTransaction(Get(args, "transactions").e[x])])
    IN IF ~IsStr(Get(payer, "payment_method")) THEN InvalidParams("Invalid payment method")
       ELSE IF transactions.st = "throw" THEN transactions
       ELSE Ok(Obj([
         intent |-> Get(args, "intent"),
         payer |-> Obj([payment_method |-> Get(payer, "payment_method"),
                        funding_instruments |-> Get(payer, "funding_instruments")]),
         transactions |-> transactions.v]))

\* the callback of payout.items.map
validatePayoutItem(item) ==
  IF Nullish(item) THEN Throw(TypeError)
  ELSE IF \/ ~IsStr(Get(item, "recipient_type"))
          \/ NoObjectAt(Get(item, "amount"))
          \/ ~IsStr(Get(item, "receiver"))
  THEN InvalidParams("Invalid payout item")
  ELSE
    LET amount == Get(item, "amount")
    IN IF ~IsStr(Get(amount, "value")) \/ ~IsStr(Get(amount, "currency"))
       THEN InvalidParams("Invalid amount fields")
       ELSE Ok(Obj([recipient_type |-> Get(item, "recipient_type"),
                    amount |-> Obj([value |-> Get(amount, "value"),
                                    currency |-> Get(amount, "currency")]),
                    receiver |-> Get(item, "receiver")]
             @@ Opt(IsStr(Get(item, "note")), "note", Get(item, "note"))
             @@ Opt(IsStr(Get(item, "sender_item_id")), "sender_item_id",
                    Get(item, "sender_item_id"))))

validatePayout(args) ==
  IF NotAnObject(args) THEN InvalidParams("Invalid payout data")
  ELSE IF \/ NoObjectAt(Get(args, "sender_batch_header"))
          \/ ~IsArray(Get(args, "items"))
          \/ Len(Get(args, "items").e) = 0
  THEN InvalidParams("Missing required payout fields")
  ELSE
    LET header == Get(args, "sender_batch_header")
        items == MapArr([x \in DOMAIN Get(args, "items").e |->
            validatePayoutItem(Get(args, "items").e[x])])
    IN IF ~IsStr(Get(header, "sender_batch_id")) THEN InvalidParams("Invalid sender batch ID")
       ELSE IF items.st = "throw" THEN items
       ELSE Ok(Obj([
         sender_batch_header |-> Obj([
           sender_batch_id |-> Get(header, "sender_batch_id"),
           email_subject |-> IF IsStr(Get(header, "email_subject"))
                             THEN Get(header, "email_subject") ELSE Undef,
           recipient_type |-> IF IsStr(Get(header, "recipient_type"))
                              THEN Get(header, "recipient_type") ELSE Undef]),
         items |-> items.v]))

\* the callback of payout.referenced_payouts.map
validateReferencedPayoutItem(ref) ==
  IF Nullish(ref) THEN Throw(TypeError)
  ELSE IF \/ ~IsStr(Get(ref, "reference_id"))
          \/ ~IsStr(Get(ref, "reference_type"))
          \/ NoObjectAt(Get(ref, "payout_amount"))
          \/ ~IsStr(Get(ref, "payout_destination"))
  THEN InvalidParams("Invalid referenced payout")
  ELSE
    LET amount == Get(ref, "payout_amount")
        state == Get(ref, "processing_state")
    IN IF ~IsStr(Get(amount, "currency_code")) \/ ~IsStr(Get(amount, "value"))
       THEN InvalidParams("Invalid amount fields")
       ELSE IF typeof(state) = "object" /\ Nullish(state) THEN Throw(TypeError)
       ELSE Ok(Obj([
         item_id |-> IF IsStr(Get(ref, "item_id")) THEN Get(ref, "item_id") ELSE Str(""),
         processing_state |-> Obj([
           status |-> IF typeof(state) = "object" /\ Truthy(Get(state, "status"))
                      THEN Get(state, "status") ELSE Str(""),
           reason |-> IF typeof(state) = "object" THEN Get(state, "reason") ELSE Undef]),
         reference_id |-> Get(ref, "reference_id"),
         reference_type |-> Get(ref, "reference_type"),
         payout_amount |-> Obj([currency_code |-> Get(amount, "currency_code"),
                                value |-> Get(amount, "value")]),
         payout_destination |-> Get(ref, "payout_destination")]))

validateReferencedPayout(args) ==
  IF NotAnObject(args) THEN InvalidParams("Invalid referenced payout data")
  ELSE IF \/ ~IsArray(Get(args, "referenced_payouts"))
          \/ Len(Get(args, "referenced_payouts").e) = 0
  THEN InvalidParams("Missing referenced payouts")
  ELSE
    LET referenced_payouts ==
          MapArr([x \in DOMAIN Get(args, "referenced_payouts").e |->
              validateReferencedPayoutItem(Get(args, "referenced_payouts").e[x])])
    IN IF referenced_payouts.st = "throw" THEN referenced_payouts
       ELSE Ok(Obj([referenced_payouts |-> referenced_payouts.v]))

\* the callback of order.purchase_units.map
validatePurchaseUnit(unit) ==
  IF Nullish(unit) THEN Throw(TypeError)
  ELSE IF NoObjectAt(Get(unit, "amount"))
  THEN InvalidParams("Invalid purchase unit amount")
  ELSE
    LET amount == Get(unit, "amount")
    IN IF ~IsStr(Get(amount, "currency_code")) \/ ~IsStr(Get(amount, "value"))
       THEN InvalidParams("Invalid amount fields")
       ELSE Ok(Obj(("amount" :> Obj([currency_code |-> Get(amount, "currency_code"),
                                     value |-> Get(amount, "value")]))
             @@ Opt(IsStr(Get(unit, "description")), "description",
                    Get(unit, "description"))
             @@ Opt(IsStr(Get(unit, "reference_id")), "reference_id",
                    Get(unit, "reference_id"))))

\* a variant of the list below that also holds a lower-case spelling
OrderIntents_anyCase == {Str("CAPTURE"), Str("AUTHORIZE"), Str("capture")}

\* ['CAPTURE', 'AUTHORIZE']
OrderIntents == {Str("CAPTURE"), Str("AUTHORIZE")}

validatePayPalOrder(args) ==
  IF NotAnObject(args) THEN InvalidParams("Invalid order data")
  ELSE IF \/ Get(args, "intent") \notin OrderIntents
          \/ ~IsArray(Get(args, "purchase_units"))
          \/ Len(Get(args, "purchase_units").e) = 0
  THEN InvalidParams("Missing required order fields")
  ELSE
    LET purchase_units == MapArr([x \in DOMAIN Get(args, "purchase_units").e |->
        validatePurchaseUnit(Get(args, "purchase_units").e[x])])
    IN IF purchase_units.st = "throw" THEN purchase_units
       ELSE Ok(Obj([intent |-> Get(args, "intent"),
                    purchase_units |-> purchase_units.v]))

\* the callback of ownerObj.names.map
validateOwnerName(name) ==
  IF Nullish(name) THEN Throw(TypeError)
  ELSE IF ~IsStr(Get(name, "given_name")) \/ ~IsStr(Get(name, "surname"))
  THEN InvalidParams("Invalid name fields")
  ELSE Ok(Obj([given_name |-> Get(name, "given_name"),
               surname |-> Get(name, "surname")]))

\* the callback of referral.individual_owners.map
validateOwner(owner) ==
  IF Nullish(owner) THEN Throw(TypeError)
  ELSE IF ~IsArray(Get(owner, "names")) \/ Len(Get(owner, "names").e) = 0
  THEN InvalidParams("Invalid owner names")
  ELSE
    LET names == MapArr([x \in DOMAIN Get(owner, "names").e |->
        validateOwnerName(Get(owner, "names").e[x])])
    IN IF names.st = "throw" THEN names
       ELSE Ok(Obj([names |-> names.v]))

validatePartnerReferral(args) ==
  IF NotAnObject(args) THEN InvalidParams("Invalid partner referral data")
  ELSE IF \/ ~IsArray(Get(args, "individual_owners"))
          \/ ~Truthy(Get(args, "business_entity"))
          \/ ~IsStr(Get(args, "email"))
  THEN InvalidParams("Missing required referral fields")
  ELSE
    LET individual_owners == MapArr([x \in DOMAIN Get(args, "individual_owners").e |->
        validateOwner(Get(args, "individual_owners").e[x])])
        business == Get(args, "business_entity")
        business_type == Get(business, "business_type")
    IN IF individual_owners.st = "throw" THEN individual_owners
       ELSE IF ~Truthy(business_type) \/ ~IsStr(Get(business, "business_name"))
       THEN InvalidParams("Invalid business entity")
       ELSE IF ~IsStr(Get(business_type, "type"))
       THEN InvalidParams("Invalid business type")
       ELSE Ok(Obj([
         individual_owners |-> individual_owners.v,
         business_entity |-> Obj([
           business_type |-> Obj([type |-> Get(business_type, "type")]),
           business_name |-> Get(business, "business_name")]),
         email |-> Get(args, "email")]))

\* the fields of section `from` copied when they have the type `ty`
CopyTyped(from, keys, ty) ==
  IF ~Truthy(from) \/ typeof(from) # "object" THEN EmptyF
  ELSE [k \in {x \in keys : typeof(Get(from, x)) = ty} |-> Get(from, k)]

validateWebProfile(args) ==
  IF NotAnObject(args) THEN InvalidParams("Invalid web profile data")
  ELSE IF ~IsStr(Get(args, "name")) THEN InvalidParams("Missing required profile name")
  ELSE Ok(Obj([
    name |-> Get(args, "name"),
    presentation |-> Obj(CopyTyped(Get(args, "presentation"),
                           {"brand_name", "logo_image", "locale_code"}, "string")),
    input_fields |-> Obj(CopyTyped(Get(args, "input_fields"),
                           {"no_shipping", "address_override"}, "number")),
    flow_config |-> Obj(CopyTyped(Get(args, "flow_config"),
                           {"landing_page_type", "bank_txn_pending_url"}, "string"))]))

\* ['PHYSICAL', 'DIGITAL', 'SERVICE']
ProductTypes == {Str("PHYSICAL"), Str("DIGITAL"), Str("SERVICE")}

validatePayPalProduct(args) ==
  IF NotAnObject(args) THEN InvalidParams("Invalid product data")
  ELSE IF \/ ~IsStr(Get(args, "name"))
          \/ ~IsStr(Get(args, "description"))
          \/ Get(args, "type") \notin ProductTypes
          \/ ~IsStr(Get(args, "category"))
  THEN InvalidParams("Missing required product fields")
  ELSE Ok(Obj([name |-> Get(args, "name"),
               description |-> Get(args, "description"),
               type |-> Get(args, "type"),
               category |-> Get(args, "category")]
        @@ Opt(IsStr(Get(args, "image_url")), "image_url", Get(args, "image_url"))
        @@ Opt(IsStr(Get(args, "home_url")), "home_url", Get(args, "home_url"))))

MinPageSize == 1

MaxPageSize == 100

MinPage == 1

\* a variant of validatePaginationParams that clamps a page_size above the
\* maximum to the maximum
validatePaginationParams_clamped(args) ==
  IF NotAnObject(args) THEN Ok(Obj(EmptyF))
  ELSE
    LET page_size == Get(args, "page_size")
        page == Get(args, "page")
    IN Ok(Obj(
         Opt(IsNum(page_size) /\ page_size.n >= MinPageSize, "page_size",
             IF IsNum(page_size) /\ page_size.n > MaxPageSize THEN Num(MaxPageSize)
             ELSE page_size)
         @@ Opt(IsNum(page) /\ page.n >= MinPage, "page", page)))

validatePaginationParams(args) ==
  IF NotAnObject(args) THEN Ok(Obj(EmptyF))
  ELSE
    LET page_size == Get(args, "page_size")
        page == Get(args, "page")
    IN Ok(Obj(
         Opt(IsNum(page_size) /\ page_size.n >= MinPageSize /\ page_size.n <= MaxPageSize,
             "page_size", page_size)
         @@ Opt(IsNum(page) /\ page.n >= MinPage, "page", page)))

\* a variant of validateDisputeParams that returns the checked input itself
validateDisputeParams_passthrough(args) ==
  IF NotAnObject(args) \/ ~IsStr(Get(args, "dispute_id"))
  THEN InvalidParams("Invalid dispute ID")
  ELSE Ok(args)

validateDisputeParams(args) ==
  IF NotAnObject(args) \/ ~IsStr(Get(args, "dispute_id"))
  THEN InvalidParams("Invalid dispute ID")
  ELSE Ok(Obj([dispute_id |-> Get(args, "dispute_id")]))

validateTokenParams(args) ==
  IF NotAnObject(args) \/ ~IsStr(Get(args, "access_token"))
  THEN InvalidParams("Invalid access token")
  ELSE Ok(Obj([access_token |-> Get(args, "access_token")]))

\* the callback of items.map in validatePayPalInvoice
validateInvoiceItem(item) ==
  IF Nullish(item) THEN Throw(TypeError)
  ELSE IF \/ ~IsStr(Get(item, "name"))
          \/ ~IsStr(Get(item, "quantity"))
          \/ NoObjectAt(Get(item, "unit_amount"))
  THEN InvalidParams("Invalid invoice item")
  ELSE
    LET amount == Get(item, "unit_amount")
    IN IF ~IsStr(Get(amount, "currency_code")) \/ ~IsStr(Get(amount, "value"))
       THEN InvalidParams("Invalid item amount")
       ELSE Ok(Obj([name |-> Get(item, "name"),
                    quantity |-> Get(item, "quantity"),
                    unit_amount |-> Obj([currency_code |-> Get(amount, "currency_code"),
                                         value |-> Get(amount, "value")])]))

validatePayPalInvoice(args) ==
  IF NotAnObject(args) THEN InvalidParams("Invalid invoice data")
  ELSE IF \/ NoObjectAt(Get(args, "detail"))
          \/ ~IsArray(Get(args, "primary_recipients"))
          \/ Len(Get(args, "primary_recipients").e) = 0
          \/ ~IsArray(Get(args, "items"))
          \/ Len(Get(args, "items").e) = 0
  THEN InvalidParams("Missing required invoice fields")
  ELSE
    LET detail == Get(args, "detail")
        recipient == Get(args, "primary_recipients").e[1]
        billing_info == Get(recipient, "billing_info")
        validatedItems == MapArr([x \in DOMAIN Get(args, "items").e |->
            validateInvoiceItem(Get(args, "items").e[x])])
    IN IF \/ ~IsStr(Get(detail, "invoice_number"))
          \/ ~IsStr(Get(detail, "reference"))
          \/ ~IsStr(Get(detail, "currency_code"))
       THEN InvalidParams("Invalid invoice detail fields")
       ELSE IF Nullish(recipient) THEN Throw(TypeError)
       ELSE IF NoObjectAt(billing_info) \/ ~IsStr(Get(billing_info, "email_address"))
       THEN InvalidParams("Invalid recipient information")
       ELSE IF validatedItems.st = "throw" THEN validatedItems
       ELSE Ok(Obj([
         detail |-> Obj([invoice_number |-> Get(detail, "invoice_number"),
                         reference |-> Get(detail, "reference"),
                         currency_code |-> Get(detail, "currency_code")]),
         primary_recipients |-> Arr(<<Obj([billing_info |->
             Obj([email_address |-> Get(billing_info, "email_address")])])>>),
         items |-> validatedItems.v]))

---------------------------------------------------------------------------
(* Tool registry and dispatch                                              *)

\* the name of each entry of the tools array the list-tools handler returns, in
\* the order of the array
ToolList ==
  <<"create_payment_token", "create_payment", "create_payout",
    "create_referenced_payout", "create_order", "create_partner_referral",
    "create_web_profile", "create_product", "list_products", "get_dispute",
    "get_userinfo", "create_invoice">>

\* the names the list-tools handler advertises
ToolNames == {ToolList[i] : i \in DOMAIN ToolList}

\* JSON schemas as the registry writes them
SString == [type |-> "string"]

SNumber == [type |-> "number"]

SEnum(values) == [type |-> "string", enum |-> values]

SObject(properties, required) ==
  [type |-> "object", properties |-> properties, required |-> required]

SArray(items) == [type |-> "array", items |-> items]

\* { currency_code, value }, both required: the amount of an order's purchase
\* unit and of a referenced payout
SMoney ==
  SObject([currency_code |-> SString, value |-> SString], {"currency_code", "value"})

\* the inputSchema the list-tools handler advertises for each tool
InputSchema(name) ==
  CASE name = "create_payment_token" ->
         SObject([customer |-> SObject([id |-> SString, email_address |-> SString],
                                       {"id"}),
                  payment_source |->
                    SObject([card |-> SObject([name |-> SString, number |-> SString,
                                               expiry |-> SString,
                                               security_code |-> SString], {}),
                             paypal |-> SObject([email_address |-> SString], {})],
                            {})],
                 {"customer", "payment_source"})
    [] name = "create_payment" ->
         SObject([intent |-> SString,
                  payer |->
                    SObject([payment_method |-> SString,
                             funding_instruments |->
                               SArray(SObject([credit_card |->
                                 SObject([number |-> SString, type |-> SString,
                                          expire_month |-> SNumber,
                                          expire_year |-> SNumber, cvv2 |-> SString,
                                          first_name |-> SString,
                                          last_name |-> SString], {})], {}))],
                            {"payment_method"}),
                  transactions |->
                    SArray(SObject([amount |-> SObject([total |-> SString,
                                                        currency |-> SString],
                                                       {"total", "currency"}),
                                    description |-> SString], {"amount"}))],
                 {"intent", "payer", "transactions"})
    [] name = "create_payout" ->
         SObject([sender_batch_header |->
                    SObject([sender_batch_id |-> SString, email_subject |-> SString,
                             recipient_type |-> SString], {"sender_batch_id"}),
                  items |->
                    SArray(SObject([recipient_type |-> SString,
                                    amount |-> SObject([value |-> SString,
                                                        currency |-> SString],
                                                       {"value", "currency"}),
                                    receiver |-> SString, note |-> SString,
                                    sender_item_id |-> SString],
                                   {"recipient_type", "amount", "receiver"}))],
                 {"sender_batch_header", "items"})
    [] name = "create_referenced_payout" ->
         SObject([referenced_payouts |->
                    SArray(SObject([reference_id |-> SString,
                                    reference_type |-> SString,
                                    payout_amount |-> SMoney,
                                    payout_destination |-> SString],
                                   {"reference_id", "reference_type", "payout_amount",
                                    "payout_destination"}))],
                 {"referenced_payouts"})
    [] name = "create_order" ->
         SObject([intent |-> SEnum({"CAPTURE", "AUTHORIZE"}),
                  purchase_units |->
                    SArray(SObject([amount |-> SMoney, description |-> SString,
                                    reference_id |-> SString], {"amount"}))],
                 {"intent", "purchase_units"})
    [] name = "create_partner_referral" ->
         SObject([individual_owners |->
                    SArray(SObject([names |->
                      SArray(SObject([given_name |-> SString, surname |-> SString],
                                     {"given_name", "surname"}))], {"names"})),
                  business_entity |->
                    SObject([business_type |-> SObject([type |-> SString], {"type"}),
                             business_name |-> SString],
                            {"business_type", "business_name"}),
                  email |-> SString],
                 {"individual_owners", "business_entity", "email"})
    [] name = "create_web_profile" ->
         SObject([name |-> SString,
                  presentation |-> SObject([brand_name |-> SString,
                                            logo_image |-> SString,
                                            locale_code |-> SString], {}),
                  input_fields |-> SObject([no_shipping |-> SNumber,
                                            address_override |-> SNumber], {}),
                  flow_config |-> SObject([landing_page_type |-> SString,
                                           bank_txn_pending_url |-> SString], {})],
                 {"name"})
    [] name = "create_product" ->
         SObject([name |-> SString, description |-> SString,
                  type |-> SEnum({"PHYSICAL", "DIGITAL", "SERVICE"}),
                  category |-> SString, image_url |-> SString, home_url |-> SString],
                 {"name", "description", "type", "category"})
    [] name = "list_products" ->
         SObject([page_size |-> [type |-> "number", minimum |-> 1, maximum |-> 100],
                  page |-> [type |-> "number", minimum |-> 1]], {})
    [] name = "get_dispute" -> SObject([dispute_id |-> SString], {"dispute_id"})
    [] name = "get_userinfo" -> SObject([access_token |-> SString], {"access_token"})
    [] name = "create_invoice" ->
         SObject([invoice_number |-> SString, reference |-> SString,
                  currency_code |-> SString, recipient_email |-> SString,
                  items |->
                    SArray(SObject([name |-> SString, quantity |-> SString,
                                    unit_amount |->
                                      SObject([currency_code |-> SString,
                                               value |-> SString], {})], {}))],
                 {"invoice_number", "reference", "currency_code", "recipient_email",
                  "items"})

\* the case labels of the call-tool switch, in the order of the source
CaseLabels ==
  <<"create_payment_token", "create_payment", "create_payout",
    "create_referenced_payout", "create_order", "create_partner_referral",
    "create_web_profile", "create_product", "list_products", "get_dispute",
    "get_userinfo", "create_invoice">>

\* a variant of the switch with no case for create_invoice
DispatchCases_withoutInvoice ==
  {CaseLabels[i] : i \in DOMAIN CaseLabels} \ {"create_invoice"}

\* the names the call-tool switch has a case for
DispatchCases == {CaseLabels[i] : i \in DOMAIN CaseLabels}

\* the validator methods called in the block of the k-th case of the switch
CaseValidators(k) ==
  CASE k = 1 -> {"validatePaymentToken"}
    [] k = 2 -> {"validatePayment"}
    [] k = 3 -> {"validatePayout"}
    [] k = 4 -> {"validateReferencedPayout"}
    [] k = 5 -> {"validatePayPalOrder"}
    [] k = 6 -> {"validatePartnerReferral"}
    [] k = 7 -> {"validateWebProfile"}
    [] k = 8 -> {"validatePayPalProduct"}
    [] k = 9 -> {"validatePaginationParams"}
    [] k = 10 -> {"validateDisputeParams"}
    [] k = 11 -> {"validateTokenParams"}
    [] k = 12 -> {"validatePayPalInvoice"}

\* the validator each case of the switch runs
Validate(name, args) ==
  CASE name = "create_payment_token" -> validatePaymentToken(args)
    [] name = "create_payment" -> validatePayment(args)
    [] name = "create_payout" -> validatePayout(args)
    [] name = "create_referenced_payout" -> validateReferencedPayout(args)
    [] name = "create_order" -> validatePayPalOrder(args)
    [] name = "create_partner_referral" -> validatePartnerReferral(args)
    [] name = "create_web_profile" -> validateWebProfile(args)
    [] name = "create_product" -> validatePayPalProduct(args)
    [] name = "list_products" -> validatePaginationParams(args)
    [] name = "get_dispute" -> validateDisputeParams(args)
    [] name = "get_userinfo" -> validateTokenParams(args)
    [] name = "create_invoice" -> validatePayPalInvoice(args)

RECURSIVE Wire(_)
\* the JSON text axios sends for a body, as the value the receiver parses: a
\* property whose value is undefined is left out, an undefined array element
\* becomes null
Wire(v) ==
  CASE v.t = "object" ->
         Obj([k \in {x \in DOMAIN v.f : v.f[x].t # "undefined"} |-> Wire(v.f[k])])
    [] v.t = "array" ->
         Arr([i \in DOMAIN v.e |-> IF v.e[i].t = "undefined" THEN Null ELSE Wire(v.e[i])])
    [] OTHER -> v

ApiBase == "https://api-m.sandbox.paypal.com"

\* the POST path of each body-carrying tool
PostPath(name) ==
  CASE name = "create_payment_token" -> "/v3/payment-tokens"
    [] name = "create_payment" -> "/v2/payments/payment"
    [] name = "create_payout" -> "/v1/payments/payouts"
    [] name = "create_referenced_payout" -> "/v1/payments/referenced-payouts"
    [] name = "create_order" -> "/v2/checkout/orders"
    [] name = "create_partner_referral" -> "/v2/customer/partner-referrals"
    [] name = "create_web_profile" -> "/v1/payment-experience/web-profiles"
    [] name = "create_product" -> "/v1/catalogs/products"
    [] name = "create_invoice" -> "/v2/invoicing/invoices"

DefaultPageSize == "10"

DefaultPage == "1"

\* a variant of PageQuery that writes the validated values without defaults
PageQuery_noDefaults(args) ==
  [page_size |-> IF Get(args, "page_size").t = "number"
                 THEN ToString(Get(args, "page_size").n) ELSE "undefined",
   page |-> IF Get(args, "page").t = "number"
            THEN ToString(Get(args, "page").n) ELSE "undefined"]

\* args.page_size?.toString() || '10' and args.page?.toString() || '1'
PageQuery(args) ==
  [page_size |-> IF Get(args, "page_size").t = "number"
                 THEN ToString(Get(args, "page_size").n) ELSE DefaultPageSize,
   page |-> IF Get(args, "page").t = "number"
            THEN ToString(Get(args, "page").n) ELSE DefaultPage]

\* invoiceData of case 'create_invoice'
InvoiceData(args) ==
  Obj([detail |-> Obj([
         invoice_number |-> Get(Get(args, "detail"), "invoice_number"),
         reference |-> Get(Get(args, "detail"), "reference"),
         currency_code |-> Get(Get(args, "detail"), "currency_code")]),
       primary_recipients |-> Arr(<<Obj([billing_info |-> Obj([email_address |->
         Get(Get(Get(args, "primary_recipients").e[1], "billing_info"),
             "email_address")])])>>),
       items |-> Get(args, "items")])

\* `${v}` in a template literal
Template(v) ==
  CASE v.t = "string" -> v.s
    [] v.t = "number" -> ToString(v.n)
    [] v.t = "null" -> "null"
    [] OTHER -> "undefined"

NoReq == [method |-> "none", url |-> "", bearer |-> "", body |-> Undef]

\* a variant of the Authorization header below that always takes the handler's
\* accessToken
Bearer_alwaysCached(name, args, token) == Template(token)

\* the token of the Authorization header of a case's request: the handler's
\* headers, except get_userinfo, which writes its own from its validated args
Bearer(name, args, token) ==
  IF name = "get_userinfo" THEN Template(Get(args, "access_token"))
  ELSE Template(token)

\* the upstream request a case of the switch makes from the validated args and
\* the handler's accessToken
BuildRequest(name, args, token) ==
  CASE name = "list_products" ->
         [method |-> "GET",
          url |-> ApiBase \o "/v1/catalogs/products?page_size="
                   \o PageQuery(args).page_size \o "&page=" \o PageQuery(args).page,
          bearer |-> Bearer(name, args, token), body |-> Undef]
    [] name = "get_dispute" ->
         [method |-> "GET",
          url |-> ApiBase \o "/v1/customer/disputes/" \o Template(Get(args, "dispute_id")),
          bearer |-> Bearer(name, args, token), body |-> Undef]
    [] name = "get_userinfo" ->
         [method |-> "GET", url |-> ApiBase \o "/v1/identity/oauth2/userinfo",
          bearer |-> Bearer(name, args, token), body |-> Undef]
    [] name = "create_invoice" ->
         [method |-> "POST", url |-> ApiBase \o PostPath(name),
          bearer |-> Bearer(name, args, token), body |-> Wire(InvoiceData(args))]
    [] OTHER ->
         [method |-> "POST", url |-> ApiBase \o PostPath(name),
          bearer |-> Bearer(name, args, token), body |-> Wire(args)]

---------------------------------------------------------------------------
(* The call-tool handler and the credential cache                          *)

\* invocations of the call-tool handler in progress at one time
MaxInv == 2

Invs == 1..MaxInv

\* access tokens the OAuth endpoint may issue
Tokens == {"tokA", "tokB"}

\* response.data of the token POST
TokenBodies ==
  {Obj([access_token |-> Str(t)]) : t \in Tokens}
    \cup {Obj(EmptyF), Obj([access_token |-> Str("")])}

\* rejections of the token POST
TokenFailures == {AxiosError("Request failed with status code 401", Undef)}

\* rejections of a tool's API call
ApiFailures ==
  {AxiosError("Request failed with status code 400", Str("Invalid request")),
   AxiosError("Network Error", Undef),
   AxiosError("Request failed with status code 500", Str(""))}

\* response.data of a tool's API call
ApiBodies == {Obj([id |-> Str("PAY-1")]), Obj(EmptyF)}

\* JSON.stringify(data, null, 2) of an object with at most one property, a string
Stringify(data) ==
  IF DOMAIN data.f = {} THEN "{}"
  ELSE LET k == CHOOSE x \in DOMAIN data.f : TRUE
       IN "{\n  \"" \o k \o "\": \"" \o data.f[k].s \o "\"\n}"

NoError == [cls |-> "none", code |-> "none", message |-> "", props |-> {},
            upstream |-> Undef]

NoOutcome == [kind |-> "none", isError |-> FALSE, text |-> "", e |-> NoError]

\* return { content: [{ type: 'text', text }] } and its isError variant
Return(text, isError) ==
  [kind |-> "return", isError |-> isError, text |-> text, e |-> NoError]

\* the handler's promise rejects with e
Reject(e) == [kind |-> "throw", isError |-> FALSE, text |-> "", e |-> e]

\* a variant of the catch block that reports error.message only
CatchBlock_messageOnly(error) ==
  IF isAxiosError(error)
  THEN Return("PayPal API error: " \o error.message, TRUE)
  ELSE Reject(McpError("InternalError",
                       IF error.message # "" THEN error.message
                       ELSE "An unexpected error occurred"))

\* the catch block of the handler
CatchBlock(error) ==
  IF isAxiosError(error)
  THEN Return("PayPal API error: "
                \o (IF Truthy(error.upstream) THEN error.upstream.s ELSE error.message),
              TRUE)
  ELSE Reject(McpError("InternalError",
                IF error.message # "" THEN error.message
                ELSE "An unexpected error occurred"))

IdleInv ==
  [pc |-> "idle", name |-> "", args |-> Undef, token |-> Undef, fetches |-> 0,
   calls |-> 0, req |-> NoReq, out |-> NoOutcome]

\* a variant of the test below that never fetches
CacheHit_always(cache) == TRUE

\* if (this.accessToken) return this.accessToken
CacheHit(cache) == Truthy(cache)

\* a variant of the check below that tests for null only
ArgumentsMissing_nullOnly(args) == args.t = "null"

\* if (!request.params.arguments)
ArgumentsMissing(args) == ~Truthy(args)

\* the handler up to its first await: the argument check, then getAccessToken up
\* to its return of the cached token or its token POST. Invocations are
\* interchangeable: a new one takes the lowest free place.
CallTool(i, name, args) ==
  /\ inv[i].pc = "idle"
  /\ \A j \in Invs : j < i => inv[j].pc # "idle"
  /\ IF ArgumentsMissing(args)
     THEN inv' = [inv EXCEPT ![i] = [@ EXCEPT !.pc = "done", !.name = name,
                    !.args = args,
                    !.out = Reject(McpError("InvalidParams", "Arguments are required"))]]
     ELSE IF CacheHit(accessToken)
     THEN inv' = [inv EXCEPT ![i] = [@ EXCEPT !.pc = "dispatch", !.name = name,
                    !.args = args, !.token = accessToken]]
     ELSE inv' = [inv EXCEPT ![i] = [@ EXCEPT !.pc = "token", !.name = name,
                    !.args = args, !.fetches = 1]]
  /\ UNCHANGED <<accessToken, fetched, vtool, vraw, vstep, vres, vreq, listed>>

\* a variant of the assignment below that keeps a marker for a response
\* without token
StoreToken_placeholder(cache, data) ==
  IF Truthy(Get(data, "access_token")) THEN Get(data, "access_token")
  ELSE Str("none")

\* this.accessToken = response.data.access_token
StoreToken(cache, data) == Get(data, "access_token")

\* a variant of the check below that tests for undefined only
TokenMissing_undefinedOnly(cache) == cache.t = "undefined"

\* if (!this.accessToken) throw new Error('Failed to obtain access token')
TokenMissing(cache) == ~Truthy(cache)

\* getAccessToken after its token POST resolved with response.data = data, an
\* object; the handler resumes with the token only at its next step
TokenResponse(i, data) ==
  /\ inv[i].pc = "token"
  /\ accessToken' = StoreToken(accessToken, data)
  /\ fetched' = IF Truthy(Get(data, "access_token"))
                THEN fetched \cup {Get(data, "access_token").s} ELSE fetched
  /\ IF TokenMissing(accessToken')
     THEN inv' = [inv EXCEPT ![i] = [@ EXCEPT !.pc = "done",
                    !.out = Reject(PlainError("Failed to obtain access token"))]]
     ELSE inv' = [inv EXCEPT ![i] = [@ EXCEPT !.pc = "dispatch",
                    !.token = accessToken']]
  /\ UNCHANGED <<vtool, vraw, vstep, vres, vreq, listed>>

\* a variant of the step below that sends the token POST again
TokenFailure_retried(i, error) ==
  /\ inv[i].pc = "token"
  /\ inv' = [inv EXCEPT ![i] = [@ EXCEPT !.fetches = IF @ = 1 THEN 2 ELSE 1]]
  /\ UNCHANGED <<accessToken, fetched, vtool, vraw, vstep, vres, vreq, listed>>

\* the token POST rejected: getAccessToken, awaited outside the try, rejects
\* the handler with the same error
TokenFailure(i, error) ==
  /\ inv[i].pc = "token"
  /\ inv' = [inv EXCEPT ![i] = [@ EXCEPT !.pc = "done", !.out = Reject(error)]]
  /\ UNCHANGED <<accessToken, fetched, vtool, vraw, vstep, vres, vreq, listed>>

\* the outcome of the switch up to its await: the thrown error, or the request
Switch(name, args, token) ==
  IF name \notin DispatchCases
  THEN Throw(McpError("MethodNotFound", "Unknown tool: " \o name))
  ELSE LET validated == Validate(name, args)
       IN IF validated.st = "throw" THEN validated
          ELSE Ok(BuildRequest(name, validated.v, token))

\* the handler resumed with its accessToken: the try block up to the API call
Dispatch(i) ==
  /\ inv[i].pc = "dispatch"
  /\ LET r == Switch(inv[i].name, inv[i].args, inv[i].token)
     IN IF r.st = "throw"
        THEN inv' = [inv EXCEPT ![i] = [@ EXCEPT !.pc = "done", !.out = CatchBlock(r.e)]]
        ELSE inv' = [inv EXCEPT ![i] = [@ EXCEPT !.pc = "api", !.req = r.v,
                                              !.calls = @ + 1]]
  /\ UNCHANGED <<accessToken, fetched, vtool, vraw, vstep, vres, vreq, listed>>

\* the API call resolved with response.data = data
ApiResponse(i, data) ==
  /\ inv[i].pc = "api"
  /\ inv' = [inv EXCEPT ![i] = [@ EXCEPT !.pc = "done",
                                 !.out = Return(Stringify(data), FALSE)]]
  /\ UNCHANGED <<accessToken, fetched, vtool, vraw, vstep, vres, vreq, listed>>

\* a variant of the step below that sends the request again
ApiFailure_retried(i, error) ==
  /\ inv[i].pc = "api"
  /\ inv' = [inv EXCEPT ![i] = [@ EXCEPT !.calls = @ + 1]]
  /\ UNCHANGED <<accessToken, fetched, vtool, vraw, vstep, vres, vreq, listed>>

\* the API call rejected
ApiFailure(i, error) ==
  /\ inv[i].pc = "api"
  /\ inv' = [inv EXCEPT ![i] = [@ EXCEPT !.pc = "done", !.out = CatchBlock(error)]]
  /\ UNCHANGED <<accessToken, fetched, vtool, vraw, vstep, vres, vreq, listed>>

\* no list-tools response yet
NotListed == <<>>

\* the list-tools handler: it returns the literal tools array
ListTools ==
  /\ listed' = ToolList
  /\ UNCHANGED <<accessToken, inv, fetched, vtool, vraw, vstep, vres, vreq>>

\* the handler's settled promise is delivered to the caller: the invocation is over
Settle(i) ==
  /\ inv[i].pc = "done"
  /\ inv' = [inv EXCEPT ![i] = IdleInv]
  /\ UNCHANGED <<accessToken, fetched, vtool, vraw, vstep, vres, vreq, listed>>

---------------------------------------------------------------------------
(* Inputs: the untyped values the validators are applied to                *)

\* longest array drawn for an array-valued field
MaxLen == 2

Absent == [t |-> "absent"]

\* the object with the properties of pairs (<<name, value>>) that are not Absent
MkObj(pairs) ==
  LET present == {i \in DOMAIN pairs : pairs[i][2] # Absent}
  IN Obj([k \in {pairs[i][1] : i \in present} |->
            pairs[CHOOSE i \in present : pairs[i][1] = k][2]])

\* the values drawn for an array-valued field: the arrays of at most MaxLen
\* elements of S, the field left out, and a string in its place
ArraysOf(S) ==
  {Arr(e) : e \in UNION {[1..m -> S] : m \in 0..MaxLen}} \cup {Absent, Str("none")}

RECURSIVE Smuggle(_)
\* v with a property the payload types do not have added to every object in it
Smuggle(v) ==
  CASE v.t = "object" ->
         Obj([k \in DOMAIN v.f |-> Smuggle(v.f[k])] @@ ("smuggled" :> Str("evil")))
    [] v.t = "array" -> Arr([i \in DOMAIN v.e |-> Smuggle(v.e[i])])
    [] OTHER -> v

RECURSIVE Unsmuggle(_)
\* v without the properties Smuggle adds
Unsmuggle(v) ==
  CASE v.t = "object" ->
         Obj([k \in DOMAIN v.f \ {"smuggled"} |-> Unsmuggle(v.f[k])])
    [] v.t = "array" -> Arr([i \in DOMAIN v.e |-> Unsmuggle(v.e[i])])
    [] OTHER -> v

RECURSIVE Mentions(_, _)
\* property k occurs somewhere in v
Mentions(v, k) ==
  CASE v.t = "object" -> k \in DOMAIN v.f \/ \E x \in DOMAIN v.f : Mentions(v.f[x], k)
    [] v.t = "array" -> \E i \in DOMAIN v.e : Mentions(v.e[i], k)
    [] OTHER -> FALSE

\* values that are no argument object
Junk == {Undef, Null, Str("junk"), Num(0), Arr(<<>>)}

GoodCard ==
  Obj([name |-> Str("A B"), number |-> Str("4111"), expiry |-> Str("2030-01"),
       security_code |-> Str("123")])

PaymentTokenCore ==
  {MkObj(<<<<"customer", c>>, <<"payment_source", p>>>>) :
     c \in {Absent, Obj([id |-> Str("C1")]),
            Obj([id |-> Str("C1"), email_address |-> Str("c@x.io")]),
            Obj([id |-> Str("C1"), email_address |-> Num(1)]),
            Obj([id |-> Num(1)]), Str("c")},
     p \in {Absent, Obj(EmptyF), Obj([card |-> GoodCard]),
            Obj([card |-> Obj([name |-> Str("A B")])]),
            Obj([paypal |-> Obj([email_address |-> Str("p@x.io"),
                                 account_id |-> Str("ACC")])]),
            Obj([paypal |-> Obj([account_id |-> Str("ACC")])]), Null, Arr(<<>>)}}

GoodTotal == Obj([total |-> Str("1.00"), currency |-> Str("USD")])

TransactionPool ==
  {Obj([amount |-> GoodTotal]),
   Obj([amount |-> GoodTotal, description |-> Str("first")]),
   Obj([amount |-> GoodTotal, description |-> Num(3)]),
   Obj([amount |-> Obj([total |-> Num(1), currency |-> Str("USD")])]),
   Null}

FundingInstruments ==
  Arr(<<Obj([credit_card |-> Obj([number |-> Str("4111"), type |-> Str("visa")])])>>)

PaymentCore ==
  {MkObj(<<<<"intent", i>>, <<"payer", p>>, <<"transactions", t>>>>) :
     i \in {Absent, Str("sale"), Num(1)},
     p \in {Absent, Obj([payment_method |-> Str("paypal")]),
            Obj([payment_method |-> Str("credit_card"),
                 funding_instruments |-> FundingInstruments]),
            Obj([payment_method |-> Str("paypal"), funding_instruments |-> Str("junk")]),
            Obj([payment_method |-> Num(1)])},
     t \in ArraysOf(TransactionPool)}

GoodValue == Obj([value |-> Str("1.00"), currency |-> Str("USD")])

PayoutItemPool ==
  {Obj([recipient_type |-> Str("EMAIL"), amount |-> GoodValue, receiver |-> Str("r@x.io")]),
   Obj([recipient_type |-> Str("EMAIL"), amount |-> GoodValue, receiver |-> Str("r@x.io"),
        note |-> Str("thanks"), sender_item_id |-> Str("I1")]),
   Obj([recipient_type |-> Str("EMAIL"), amount |-> GoodValue, receiver |-> Str("r@x.io"),
        note |-> Num(1)]),
   Obj([recipient_type |-> Str("EMAIL"), amount |-> GoodValue]),
   Null}

PayoutCore ==
  {MkObj(<<<<"sender_batch_header", h>>, <<"items", t>>>>) :
     h \in {Absent, Obj([sender_batch_id |-> Str("B1")]),
            Obj([sender_batch_id |-> Str("B1"), email_subject |-> Str("paid")]),
            Obj([sender_batch_id |-> Str("B1"), email_subject |-> Num(1),
                 recipient_type |-> Str("EMAIL")]),
            Obj([sender_batch_id |-> Num(1)])},
     t \in ArraysOf(PayoutItemPool)}

GoodMoney == Obj([currency_code |-> Str("USD"), value |-> Str("10.00")])

\* a referenced payout with the given processing_state and item_id
RefPayout(state, item) ==
  MkObj(<<<<"reference_id", Str("R1")>>, <<"reference_type", Str("TRANSACTION_ID")>>,
          <<"payout_amount", GoodMoney>>, <<"payout_destination", Str("D1")>>,
          <<"processing_state", state>>, <<"item_id", item>>>>)

ReferencedPayoutPool ==
  {RefPayout(Absent, Absent),
   RefPayout(Obj([status |-> Str("SUCCESS"), reason |-> Str("ok")]), Str("I1")),
   RefPayout(Null, Absent),
   RefPayout(Obj([status |-> Obj([code |-> Num(1)]), reason |-> Num(2)]), Num(1)),
   RefPayout(Str("SUCCESS"), Absent),
   Obj([reference_type |-> Str("TRANSACTION_ID"), payout_amount |-> GoodMoney,
        payout_destination |-> Str("D1")])}

ReferencedPayoutCore ==
  {MkObj(<<<<"referenced_payouts", r>>>>) : r \in ArraysOf(ReferencedPayoutPool)}

PurchaseUnitPool ==
  {Obj([amount |-> GoodMoney]),
   Obj([amount |-> GoodMoney, description |-> Str("unit"), reference_id |-> Str("U1")]),
   Obj([amount |-> GoodMoney, description |-> Num(1)]),
   Obj([amount |-> Obj([currency_code |-> Str("USD"), value |-> Num(10)])]),
   Null}

OrderCore ==
  {MkObj(<<<<"intent", i>>, <<"purchase_units", u>>>>) :
     i \in {Absent, Str("CAPTURE"), Str("AUTHORIZE"), Str("REFUND"), Str("capture"), Num(1)},
     u \in ArraysOf(PurchaseUnitPool)}

GoodName == Obj([given_name |-> Str("Ann"), surname |-> Str("Lee")])

OwnerPool ==
  {Obj([names |-> Arr(<<GoodName>>)]),
   Obj([names |-> Arr(<<GoodName,
                        Obj([given_name |-> Str("Bo"), surname |-> Str("Ray"),
                             prefix |-> Str("Dr")])>>)]),
   Obj([names |-> Arr(<<Obj([given_name |-> Str("Ann")])>>)]),
   Obj([names |-> Arr(<<GoodName, Null>>)]),
   Obj([names |-> Arr(<<>>)]),
   Obj(EmptyF),
   Null}

PartnerReferralCore ==
  {MkObj(<<<<"individual_owners", o>>, <<"business_entity", b>>, <<"email", e>>>>) :
     o \in ArraysOf(OwnerPool),
     b \in {Absent,
            Obj([business_type |-> Obj([type |-> Str("INDIVIDUAL")]),
                 business_name |-> Str("Acme")]),
            Obj([business_type |-> Obj([type |-> Str("INDIVIDUAL"),
                                        subtype |-> Str("ASSOCIATION")]),
                 business_name |-> Str("Acme")]),
            Obj([business_type |-> Num(5), business_name |-> Str("Acme")]),
            Obj([business_type |-> Obj([type |-> Str("INDIVIDUAL")])]),
            Str("Acme")},
     e \in {Absent, Str("o@x.io"), Num(1)}}

WebProfileCore ==
  {MkObj(<<<<"name", n>>, <<"presentation", p>>, <<"input_fields", i>>,
           <<"flow_config", f>>>>) :
     n \in {Absent, Str("profile"), Num(1)},
     p \in {Absent, Obj([brand_name |-> Str("Acme")]),
            Obj([brand_name |-> Num(1), logo_image |-> Str("http://l")]),
            Null, Str("p")},
     i \in {Absent, Obj([no_shipping |-> Num(1)]),
            Obj([no_shipping |-> Str("1"), address_override |-> Num(0)])},
     f \in {Absent, Obj([landing_page_type |-> Str("billing")]), Num(3)}}

ProductCore ==
  {MkObj(<<<<"name", n>>, <<"description", d>>, <<"type", t>>, <<"category", c>>,
           <<"image_url", i>>, <<"home_url", h>>>>) :
     n \in {Absent, Str("book"), Num(1)},
     d \in {Absent, Str("a book")},
     t \in {Absent, Str("PHYSICAL"), Str("DIGITAL"), Str("SERVICE"), Str("REFUND"), Num(1)},
     c \in {Absent, Str("BOOKS")},
     i \in {Absent, Str("http://i"), Num(1)},
     h \in {Absent, Str("http://h")}}

PaginationCore ==
  {MkObj(<<<<"page_size", s>>, <<"page", p>>>>) :
     s \in {Absent, Num(-1), Num(0), Num(1), Num(50), Num(100), Num(101), Num(500),
            Str("10")},
     p \in {Absent, Num(-3), Num(0), Num(1), Num(7), Str("2")}}

DisputeCore ==
  {MkObj(<<<<"dispute_id", d>>>>) : d \in {Absent, Str("PP-D-1"), Str(""), Num(1), Null}}

TokenParamsCore ==
  {MkObj(<<<<"access_token", a>>>>) : a \in {Absent, Str("userTok"), Str(""), Num(1)}}

RecipientPool ==
  {Obj([billing_info |-> Obj([email_address |-> Str("r@x.io")])]),
   Obj([billing_info |-> Obj([email_address |-> Num(1)])]),
   Null}

InvoiceItemPool ==
  {Obj([name |-> Str("item"), quantity |-> Str("1"), unit_amount |-> GoodMoney]),
   Obj([name |-> Str("item"), quantity |-> Num(1), unit_amount |-> GoodMoney]),
   Null}

InvoiceCore ==
  {MkObj(<<<<"detail", d>>, <<"primary_recipients", r>>, <<"items", i>>>>) :
     d \in {Absent,
            Obj([invoice_number |-> Str("INV-1"), reference |-> Str("ref"),
                 currency_code |-> Str("USD")]),
            Obj([invoice_number |-> Str("INV-1"), currency_code |-> Str("USD")]),
            Obj([invoice_number |-> Num(1), reference |-> Str("ref"),
                 currency_code |-> Str("USD")]),
            Str("d")},
     r \in ArraysOf(RecipientPool),
     i \in ArraysOf(InvoiceItemPool)}

\* argument objects of the shape the registry advertises for create_invoice
InvoiceAdvertised ==
  {Obj([invoice_number |-> Str("INV-1"), reference |-> Str("ref"),
        currency_code |-> Str("USD"), recipient_email |-> Str("r@x.io"),
        items |-> Arr(<<item>>)]) :
     item \in {Obj([name |-> Str("item"), quantity |-> Str("1"),
                    unit_amount |-> GoodMoney]),
               Obj(EmptyF)}}

Core(name) ==
  CASE name = "create_payment_token" -> PaymentTokenCore
    [] name = "create_payment" -> PaymentCore
    [] name = "create_payout" -> PayoutCore
    [] name = "create_referenced_payout" -> ReferencedPayoutCore
    [] name = "create_order" -> OrderCore
    [] name = "create_partner_referral" -> PartnerReferralCore
    [] name = "create_web_profile" -> WebProfileCore
    [] name = "create_product" -> ProductCore
    [] name = "list_products" -> PaginationCore
    [] name = "get_dispute" -> DisputeCore
    [] name = "get_userinfo" -> TokenParamsCore
    [] name = "create_invoice" -> InvoiceCore \cup InvoiceAdvertised

\* a caller's extra properties: Smuggle's at every depth, and a top-level id
WithExtras(v) == Obj(Smuggle(v).f @@ ("id" :> Str("ID-1")))

\* v without the properties WithExtras adds
WithoutExtras(v) ==
  IF v.t = "object" THEN Obj([k \in DOMAIN Unsmuggle(v).f \ {"id"} |-> Unsmuggle(v).f[k]])
  ELSE v

\* the raw values a validator is applied to
Inputs(name) == Core(name) \cup {WithExtras(v) : v \in Core(name)} \cup Junk

\* a tool name the switch has no case for
UnknownTool == "delete_account"

\* an argument object each validator accepts
GoodArgs(name) ==
  CASE name = "create_payment_token" ->
         Obj([customer |-> Obj([id |-> Str("C1")]),
              payment_source |-> Obj([card |-> GoodCard])])
    [] name = "create_payment" ->
         Obj([intent |-> Str("sale"),
              payer |-> Obj([payment_method |-> Str("credit_card"),
                             funding_instruments |-> FundingInstruments]),
              transactions |-> Arr(<<Obj([amount |-> GoodTotal])>>)])
    [] name = "create_payout" ->
         Obj([sender_batch_header |-> Obj([sender_batch_id |-> Str("B1")]),
              items |-> Arr(<<Obj([recipient_type |-> Str("EMAIL"), amount |-> GoodValue,
                                   receiver |-> Str("r@x.io")])>>)])
    [] name = "create_referenced_payout" ->
         Obj([referenced_payouts |-> Arr(<<RefPayout(Absent, Absent)>>)])
    [] name = "create_order" ->
         Obj([intent |-> Str("CAPTURE"),
              purchase_units |-> Arr(<<Obj([amount |-> GoodMoney])>>)])
    [] name = "create_partner_referral" ->
         Obj([individual_owners |-> Arr(<<Obj([names |-> Arr(<<GoodName>>)])>>),
              business_entity |-> Obj([business_type |-> Obj([type |-> Str("INDIVIDUAL")]),
                                       business_name |-> Str("Acme")]),
              email |-> Str("o@x.io")])
    [] name = "create_web_profile" -> Obj([name |-> Str("profile")])
    [] name = "create_product" ->
         Obj([name |-> Str("book"), description |-> Str("a book"),
              type |-> Str("DIGITAL"), category |-> Str("BOOKS")])
    [] name = "list_products" -> Obj([page_size |-> Num(20), page |-> Num(2)])
    [] name = "get_dispute" -> Obj([dispute_id |-> Str("PP-D-1")])
    [] name = "get_userinfo" -> Obj([access_token |-> Str("userTok")])
    [] name = "create_invoice" ->
         Obj([detail |-> Obj([invoice_number |-> Str("INV-1"), reference |-> Str("ref"),
                              currency_code |-> Str("USD")]),
              primary_recipients |-> Arr(<<Obj([billing_info |->
                                        Obj([email_address |-> Str("r@x.io")])])>>),
              items |-> Arr(<<Obj([name |-> Str("item"), quantity |-> Str("1"),
                                   unit_amount |-> GoodMoney])>>)])

\* the argument objects the handler is invoked with for a tool name
ArgSamples(name) ==
  CASE name = UnknownTool -> {Obj(EmptyF)}
    [] name = "list_products" ->
         {GoodArgs(name), Obj(EmptyF), Obj([page_size |-> Num(500)])}
    [] name = "get_userinfo" ->
         {GoodArgs(name), Obj(EmptyF), Obj([access_token |-> Str("")])}
    [] name = "create_payment" ->
         {GoodArgs(name), Obj(EmptyF),
          Obj([intent |-> Str("sale"), payer |-> Obj([payment_method |-> Str("paypal")]),
               transactions |-> Arr(<<Null>>)])}
    [] OTHER -> {GoodArgs(name), Obj(EmptyF)}

\* request.params of a call-tool request: arguments may be absent
Requests ==
  {<<name, args>> : name \in ToolNames \cup {UnknownTool}, args \in {Undef}}
    \cup UNION {{<<name, args>> : args \in ArgSamples(name)} :
                  name \in ToolNames \cup {UnknownTool}}

---------------------------------------------------------------------------
(* Specifications                                                          *)

Init ==
  /\ accessToken = Null
  /\ inv = [i \in Invs |-> IdleInv]
  /\ fetched = {}
  /\ vtool = ""
  /\ vraw = Undef
  /\ vstep = "off"
  /\ vres = Ok(Undef)
  /\ vreq = NoReq
  /\ listed = NotListed

\* an invocation was handed its token and has not yet run on: the continuation
\* of its await is a queued microtask, and the event loop runs it before it
\* delivers any further request or response
Resuming == \E i \in Invs : inv[i].pc = "dispatch"

Next ==
  \/ \E i \in Invs, r \in Requests : ~Resuming /\ CallTool(i, r[1], r[2])
  \/ \E i \in Invs, data \in TokenBodies : ~Resuming /\ TokenResponse(i, data)
  \/ \E i \in Invs, error \in TokenFailures : ~Resuming /\ TokenFailure(i, error)
  \/ \E i \in Invs : Dispatch(i)
  \/ \E i \in Invs, data \in ApiBodies : ~Resuming /\ ApiResponse(i, data)
  \/ \E i \in Invs, error \in ApiFailures : ~Resuming /\ ApiFailure(i, error)
  \/ \E i \in Invs : ~Resuming /\ Settle(i)
  \/ ~Resuming /\ ListTools

\* the call-tool handler under every interleaving of MaxInv invocations
Spec == Init /\ [][Next]_vars

\* the requests drawn where termination is checked: without arguments, for an
\* unregistered name, with rejected and with accepted arguments, and the tool
\* that sends the caller's token
LiveRequests ==
  {<<"create_order", Undef>>, <<UnknownTool, Obj(EmptyF)>>,
   <<"create_order", Obj(EmptyF)>>, <<"create_order", GoodArgs("create_order")>>,
   <<"get_userinfo", GoodArgs("get_userinfo")>>}

\* the token POST of invocation i completes, with a response or a failure
TokenCompletes(i) ==
  /\ ~Resuming
  /\ \/ \E data \in TokenBodies : TokenResponse(i, data)
     \/ \E error \in TokenFailures : TokenFailure(i, error)

\* the API call of invocation i completes, with a response or a failure
ApiCompletes(i) ==
  /\ ~Resuming
  /\ \/ \E data \in ApiBodies : ApiResponse(i, data)
     \/ \E error \in ApiFailures : ApiFailure(i, error)

NextLive ==
  \/ \E i \in Invs, r \in LiveRequests : ~Resuming /\ CallTool(i, r[1], r[2])
  \/ \E i \in Invs : TokenCompletes(i)
  \/ \E i \in Invs : Dispatch(i)
  \/ \E i \in Invs : ApiCompletes(i)
  \/ \E i \in Invs : ~Resuming /\ Settle(i)
  \/ ~Resuming /\ ListTools

\* every HTTP call that was started completes, although the delivery of its
\* outcome waits whenever a resumed handler runs first; a resumed handler runs
Fairness ==
  \A i \in Invs :
    /\ SF_vars(TokenCompletes(i))
    /\ WF_vars(Dispatch(i))
    /\ SF_vars(ApiCompletes(i))

\* the call-tool handler where every HTTP call completes
SpecLive == Init /\ [][NextLive]_vars /\ Fairness

\* the bearer token the validator harness builds requests with
HarnessToken == Str("tokA")

InitV ==
  /\ accessToken = Null
  /\ inv = [i \in Invs |-> IdleInv]
  /\ fetched = {}
  /\ vtool \in ToolNames
  /\ vraw \in Inputs(vtool)
  /\ vstep = "input"
  /\ vres = Ok(Undef)
  /\ vreq = NoReq
  /\ listed = NotListed

\* the tool's validator applied to the raw value
VValidate ==
  /\ vstep = "input"
  /\ vres' = Validate(vtool, vraw)
  /\ vstep' = "validated"
  /\ UNCHANGED <<accessToken, inv, fetched, vtool, vraw, vreq, listed>>

\* the tool's request built from the validated value
VBuild ==
  /\ vstep = "validated"
  /\ vres.st = "ok"
  /\ vreq' = BuildRequest(vtool, vres.v, HarnessToken)
  /\ vstep' = "built"
  /\ UNCHANGED <<accessToken, inv, fetched, vtool, vraw, vres, listed>>

NextV == VValidate \/ VBuild

\* every validator and request builder applied to every drawn input
SpecV == InitV /\ [][NextV]_vars

---------------------------------------------------------------------------
(* Claims about the call-tool handler (checked under Spec)                 *)

\* invocation i has ended and its outcome is not yet delivered
Ended(i) == inv[i].pc = "done"

\* invocation i came with arguments and getAccessToken returned to it
Acquired(i) == Truthy(inv[i].args) /\ Truthy(inv[i].token)

ProtocolCodes == {"InvalidParams", "MethodNotFound", "InternalError"}

\* C1: an invocation of a registered tool whose validator rejects the arguments
\* ends by throwing the validator's own error: an McpError with code
\* InvalidParams and the validator's message.
C1_ValidatorErrorPropagates ==
  \A i \in Invs :
    (/\ Ended(i) /\ Acquired(i) /\ inv[i].name \in ToolNames
     /\ Validate(inv[i].name, inv[i].args).st = "throw")
    => /\ inv[i].out.kind = "throw"
       /\ inv[i].out.e = Validate(inv[i].name, inv[i].args).e
       /\ inv[i].out.e.code = "InvalidParams"

\* C2: an invocation naming a tool absent from the registry ends by throwing an
\* McpError with code MethodNotFound (stated for the invocations that come with
\* arguments and obtain the credential, where no earlier step can end them).
C2_UnknownToolMethodNotFound ==
  \A i \in Invs :
    (Ended(i) /\ Acquired(i) /\ inv[i].name \notin ToolNames)
    => /\ inv[i].out.kind = "throw"
       /\ inv[i].out.e.cls = "McpError"
       /\ inv[i].out.e.code = "MethodNotFound"

\* C3: an invocation whose arguments fail the tool's validator attempts no
\* network call: neither the token POST nor the tool's API call.
C3_ValidationFailsFast ==
  \A i \in Invs :
    (/\ Truthy(inv[i].args) /\ inv[i].name \in ToolNames
     /\ Validate(inv[i].name, inv[i].args).st = "throw")
    => inv[i].fetches = 0 /\ inv[i].req = NoReq

\* C4: every invocation ends by returning a content envelope or by throwing a
\* protocol-level error with code InvalidParams, MethodNotFound or InternalError.
C4_EnvelopeOrProtocolError ==
  \A i \in Invs :
    Ended(i)
    => \/ inv[i].out.kind = "return"
       \/ /\ inv[i].out.kind = "throw"
          /\ inv[i].out.e.cls = "McpError"
          /\ inv[i].out.e.code \in ProtocolCodes

\* error.response?.data?.message || error.message, as the claim words it
ReportedMessage(error) ==
  IF error.upstream.t = "string" /\ error.upstream.s # "" THEN error.upstream.s
  ELSE error.message

\* C5: when the tool's API call fails the invocation returns (does not throw) an
\* envelope with the error flag set and the text "PayPal API error: " followed
\* by the upstream message when the failure carries a non-empty one, else by the
\* transport's error text.
C5_UpstreamFailureReported ==
  [][\A i \in Invs : \A error \in ApiFailures :
       ApiFailure(i, error)
       => /\ inv'[i].out.kind = "return"
          /\ inv'[i].out.isError
          /\ inv'[i].out.text = "PayPal API error: " \o ReportedMessage(error)]_vars

\* C5 witness: one invocation reported an upstream message, another the
\* transport's text
C5_BothMessagesReported ==
  /\ Ended(1) /\ inv[1].out.isError
  /\ inv[1].out.text = "PayPal API error: Invalid request"
  /\ Ended(2) /\ inv[2].out.isError
  /\ inv[2].out.text = "PayPal API error: Network Error"

\* C6: the first get_token call starts one token fetch; once a get_token call
\* has returned a credential, every later get_token call starts no fetch and
\* returns that same value.
C6_TokenMemoized ==
  [][\A i \in Invs :
       (inv[i].pc = "idle" /\ inv'[i].pc \in {"token", "dispatch"})
       => /\ (accessToken = Null => inv'[i].pc = "token" /\ inv'[i].fetches = 1)
          /\ (fetched # {}
              => /\ inv'[i].pc = "dispatch"
                 /\ inv'[i].fetches = 0
                 /\ fetched = {Template(inv'[i].token)})]_vars

\* C7: once the cached credential holds a value, no step replaces it by a
\* different value or clears it.
C7_CredentialStable ==
  [][Truthy(accessToken) => accessToken' = accessToken]_vars

\* C8 as stated: when two invocations both fetched a token, every invocation
\* that made its API call sent a bearer token some completed fetch returned.
C8_EveryBearerFetched ==
  \A i \in Invs :
    (inv[i].req # NoReq /\ \A j \in Invs : inv[j].fetches = 1)
    => inv[i].req.bearer \in fetched /\ inv[i].req.bearer # ""

\* C8 amended: every invocation of a tool other than get_userinfo that made its
\* API call sent a bearer token some completed fetch returned, never an empty
\* or absent one; get_userinfo sent the caller's access_token.
C8_BearerFetchedOrCallers ==
  \A i \in Invs :
    inv[i].req # NoReq
    => IF inv[i].name = "get_userinfo"
       THEN inv[i].req.bearer = Get(inv[i].args, "access_token").s
       ELSE inv[i].req.bearer \in fetched /\ inv[i].req.bearer # ""

\* C8 witness: two invocations both fetched a token and each made its API call
\* with its own
C8_RedundantFetches ==
  /\ \A i \in Invs : inv[i].fetches = 1 /\ inv[i].req # NoReq
                    /\ inv[i].name # "get_userinfo"
  /\ inv[1].req.bearer # inv[2].req.bearer

---------------------------------------------------------------------------
(* Claims about the validators (checked under SpecV)                       *)

\* the top-level properties each validator reads
TopLevelFields(name) ==
  CASE name = "create_payment_token" -> {"customer", "payment_source"}
    [] name = "create_payment" -> {"intent", "payer", "transactions"}
    [] name = "create_payout" -> {"sender_batch_header", "items"}
    [] name = "create_referenced_payout" -> {"referenced_payouts"}
    [] name = "create_order" -> {"intent", "purchase_units"}
    [] name = "create_partner_referral" ->
         {"individual_owners", "business_entity", "email"}
    [] name = "create_web_profile" ->
         {"name", "presentation", "input_fields", "flow_config"}
    [] name = "create_product" ->
         {"name", "description", "type", "category", "image_url", "home_url"}
    [] name = "list_products" -> {"page_size", "page"}
    [] name = "get_dispute" -> {"dispute_id"}
    [] name = "get_userinfo" -> {"access_token"}
    [] name = "create_invoice" -> {"detail", "primary_recipients", "items"}

\* C9: the request built from an accepted input is the request built from the
\* same input without the properties the payload types do not have, and none
\* of those properties occurs in the body sent.
C9_NoSmuggling ==
  vstep = "built"
  => LET clean == Validate(vtool, WithoutExtras(vraw))
     IN /\ clean.st = "ok"
        /\ vreq = BuildRequest(vtool, clean.v, HarnessToken)
        /\ ~Mentions(vreq.body, "smuggled")

\* C10: a top-level property of an accepted input that the validator does not
\* read is no key of the validated output.
C10_TopLevelProjection ==
  (vstep \in {"validated", "built"} /\ vres.st = "ok" /\ vraw.t = "object")
  => \A k \in DOMAIN vraw.f \ TopLevelFields(vtool) : k \notin DOMAIN vres.v.f

\* C10 witness: an input with two unread top-level properties was accepted
C10_ExtrasDropped ==
  /\ vstep = "validated" /\ vres.st = "ok" /\ vtool = "create_invoice"
  /\ {"id", "smuggled"} \subseteq DOMAIN vraw.f

\* v has the type ty: a primitive type, or one of the two literal sets
HasType(v, ty) ==
  CASE ty = "object" -> v.t = "object"
    [] ty = "array" -> v.t = "array"
    [] ty = "intent" -> v \in OrderIntents
    [] ty = "product type" -> v \in ProductTypes
    [] OTHER -> typeof(v) = ty

\* the fields each validator does not require, as the path to the field ("*"
\* stands for every element of an array) and the type the payload gives it
OptionalFields(name) ==
  CASE name = "create_payment_token" ->
         {[path |-> <<"customer", "email_address">>, ty |-> "string"],
          [path |-> <<"customer", "phone">>, ty |-> "object"],
          [path |-> <<"payment_source", "card">>, ty |-> "object"],
          [path |-> <<"payment_source", "paypal">>, ty |-> "object"],
          [path |-> <<"payment_source", "paypal", "account_id">>, ty |-> "string"]}
    [] name = "create_payment" ->
         {[path |-> <<"payer", "funding_instruments">>, ty |-> "array"],
          [path |-> <<"transactions", "*", "description">>, ty |-> "string"]}
    [] name = "create_payout" ->
         {[path |-> <<"sender_batch_header", "email_subject">>, ty |-> "string"],
          [path |-> <<"sender_batch_header", "recipient_type">>, ty |-> "string"],
          [path |-> <<"items", "*", "note">>, ty |-> "string"],
          [path |-> <<"items", "*", "sender_item_id">>, ty |-> "string"]}
    [] name = "create_referenced_payout" ->
         {[path |-> <<"referenced_payouts", "*", "item_id">>, ty |-> "string"],
          [path |-> <<"referenced_payouts", "*", "processing_state">>, ty |-> "object"],
          [path |-> <<"referenced_payouts", "*", "processing_state", "status">>,
           ty |-> "string"],
          [path |-> <<"referenced_payouts", "*", "processing_state", "reason">>,
           ty |-> "string"]}
    [] name = "create_order" ->
         {[path |-> <<"purchase_units", "*", "description">>, ty |-> "string"],
          [path |-> <<"purchase_units", "*", "reference_id">>, ty |-> "string"]}
    [] name = "create_partner_referral" ->
         {[path |-> <<"individual_owners", "*", "names", "*", "prefix">>, ty |-> "string"],
          [path |-> <<"individual_owners", "*", "citizenship">>, ty |-> "string"],
          [path |-> <<"business_entity", "business_type", "subtype">>, ty |-> "string"]}
    [] name = "create_web_profile" ->
         {[path |-> <<"presentation">>, ty |-> "object"],
          [path |-> <<"presentation", "brand_name">>, ty |-> "string"],
          [path |-> <<"presentation", "logo_image">>, ty |-> "string"],
          [path |-> <<"presentation", "locale_code">>, ty |-> "string"],
          [path |-> <<"input_fields">>, ty |-> "object"],
          [path |-> <<"input_fields", "no_shipping">>, ty |-> "number"],
          [path |-> <<"input_fields", "address_override">>, ty |-> "number"],
          [path |-> <<"flow_config">>, ty |-> "object"],
          [path |-> <<"flow_config", "landing_page_type">>, ty |-> "string"],
          [path |-> <<"flow_config", "bank_txn_pending_url">>, ty |-> "string"]}
    [] name = "create_product" ->
         {[path |-> <<"image_url">>, ty |-> "string"],
          [path |-> <<"home_url">>, ty |-> "string"]}
    [] name = "list_products" ->
         {[path |-> <<"page_size">>, ty |-> "number"],
          [path |-> <<"page">>, ty |-> "number"]}
    [] OTHER -> {}

RECURSIVE DropWrong(_, _, _)
\* v without the field at path wherever that field is present and has not the
\* type ty
DropWrong(v, path, ty) ==
  IF Head(path) = "*"
  THEN IF v.t = "array"
       THEN Arr([i \in DOMAIN v.e |-> DropWrong(v.e[i], Tail(path), ty)])
       ELSE v
  ELSE IF v.t # "object" \/ Head(path) \notin DOMAIN v.f THEN v
  ELSE IF Len(path) > 1
  THEN Obj([v.f EXCEPT ![Head(path)] = DropWrong(@, Tail(path), ty)])
  ELSE IF HasType(v.f[Head(path)], ty) THEN v
  ELSE Obj([k \in DOMAIN v.f \ {Head(path)} |-> v.f[k]])

\* C11: when an input is accepted once an optional field of the wrong type is
\* taken out of it, the input with that field is accepted too and gives the
\* same output.
C11_WrongTypedOptionalDropped ==
  vstep = "validated"
  => \A o \in OptionalFields(vtool) :
       LET absent == DropWrong(vraw, o.path, o.ty)
       IN (absent # vraw /\ Validate(vtool, absent).st = "ok")
          => vres = Validate(vtool, absent)

\* the fields under prefix with the given names, all of type ty
Fields(prefix, names, ty) == {[path |-> prefix \o <<n>>, ty |-> ty] : n \in names}

\* the fields each validator requires, as OptionalFields gives the optional
\* ones ("[0]" stands for the first element of an array)
RequiredFields(name) ==
  CASE name = "create_payment_token" ->
         Fields(<<>>, {"customer", "payment_source"}, "object")
           \cup Fields(<<"customer">>, {"id"}, "string")
    [] name = "create_payment" ->
         Fields(<<>>, {"intent"}, "string") \cup Fields(<<>>, {"payer"}, "object")
           \cup Fields(<<"payer">>, {"payment_method"}, "string")
           \cup Fields(<<>>, {"transactions"}, "array")
           \cup Fields(<<"transactions">>, {"*"}, "object")
           \cup Fields(<<"transactions", "*">>, {"amount"}, "object")
           \cup Fields(<<"transactions", "*", "amount">>, {"total", "currency"}, "string")
    [] name = "create_payout" ->
         Fields(<<>>, {"sender_batch_header"}, "object")
           \cup Fields(<<"sender_batch_header">>, {"sender_batch_id"}, "string")
           \cup Fields(<<>>, {"items"}, "array")
           \cup Fields(<<"items">>, {"*"}, "object")
           \cup Fields(<<"items", "*">>, {"recipient_type", "receiver"}, "string")
           \cup Fields(<<"items", "*">>, {"amount"}, "object")
           \cup Fields(<<"items", "*", "amount">>, {"value", "currency"}, "string")
    [] name = "create_referenced_payout" ->
         Fields(<<>>, {"referenced_payouts"}, "array")
           \cup Fields(<<"referenced_payouts">>, {"*"}, "object")
           \cup Fields(<<"referenced_payouts", "*">>,
                       {"reference_id", "reference_type", "payout_destination"}, "string")
           \cup Fields(<<"referenced_payouts", "*">>, {"payout_amount"}, "object")
           \cup Fields(<<"referenced_payouts", "*", "payout_amount">>,
                       {"currency_code", "value"}, "string")
    [] name = "create_order" ->
         Fields(<<>>, {"intent"}, "intent")
           \cup Fields(<<>>, {"purchase_units"}, "array")
           \cup Fields(<<"purchase_units">>, {"*"}, "object")
           \cup Fields(<<"purchase_units", "*">>, {"amount"}, "object")
           \cup Fields(<<"purchase_units", "*", "amount">>,
                       {"currency_code", "value"}, "string")
    [] name = "create_partner_referral" ->
         Fields(<<>>, {"individual_owners"}, "array")
           \cup Fields(<<"individual_owners">>, {"*"}, "object")
           \cup Fields(<<"individual_owners", "*">>, {"names"}, "array")
           \cup Fields(<<"individual_owners", "*", "names">>, {"*"}, "object")
           \cup Fields(<<"individual_owners", "*", "names", "*">>,
                       {"given_name", "surname"}, "string")
           \cup Fields(<<>>, {"business_entity"}, "object")
           \cup Fields(<<"business_entity">>, {"business_type"}, "object")
           \cup Fields(<<"business_entity", "business_type">>, {"type"}, "string")
           \cup Fields(<<"business_entity">>, {"business_name"}, "string")
           \cup Fields(<<>>, {"email"}, "string")
    [] name = "create_web_profile" -> Fields(<<>>, {"name"}, "string")
    [] name = "create_product" ->
         Fields(<<>>, {"name", "description", "category"}, "string")
           \cup Fields(<<>>, {"type"}, "product type")
    [] name = "list_products" -> {}
    [] name = "get_dispute" -> Fields(<<>>, {"dispute_id"}, "string")
    [] name = "get_userinfo" -> Fields(<<>>, {"access_token"}, "string")
    [] name = "create_invoice" ->
         Fields(<<>>, {"detail"}, "object")
           \cup Fields(<<"detail">>, {"invoice_number", "reference", "currency_code"},
                       "string")
           \cup Fields(<<>>, {"primary_recipients", "items"}, "array")
           \cup Fields(<<"primary_recipients">>, {"[0]"}, "object")
           \cup Fields(<<"primary_recipients", "[0]">>, {"billing_info"}, "object")
           \cup Fields(<<"primary_recipients", "[0]", "billing_info">>,
                       {"email_address"}, "string")
           \cup Fields(<<"items">>, {"*"}, "object")
           \cup Fields(<<"items", "*">>, {"name", "quantity"}, "string")
           \cup Fields(<<"items", "*">>, {"unit_amount"}, "object")
           \cup Fields(<<"items", "*", "unit_amount">>, {"currency_code", "value"},
                       "string")

RECURSIVE Lacks(_, _, _)
\* somewhere in v the field at path is missing from the object that should
\* hold it, or has not the type ty
Lacks(v, path, ty) ==
  IF path = <<>> THEN ~HasType(v, ty)
  ELSE IF Head(path) = "*"
  THEN v.t = "array" /\ \E i \in DOMAIN v.e : Lacks(v.e[i], Tail(path), ty)
  ELSE IF Head(path) = "[0]"
  THEN v.t = "array" /\ Len(v.e) > 0 /\ Lacks(v.e[1], Tail(path), ty)
  ELSE /\ v.t = "object"
       /\ \/ Head(path) \notin DOMAIN v.f
          \/ Lacks(v.f[Head(path)], Tail(path), ty)

\* C12: a validator other than the pagination validator rejects, with an
\* InvalidParams error, every input in which a field it requires is missing or
\* has the wrong type.
C12_RequiredFieldsEnforced ==
  (/\ vstep = "validated" /\ vtool # "list_products"
   /\ \E r \in RequiredFields(vtool) : Lacks(vraw, r.path, r.ty))
  => /\ vres.st = "throw"
     /\ vres.e.cls = "McpError"
     /\ vres.e.code = "InvalidParams"

RECURSIVE Present(_, _)
\* somewhere in v the field at path is a key with a value other than undefined
Present(v, path) ==
  IF path = <<>> THEN v.t # "undefined"
  ELSE IF Head(path) = "*"
  THEN v.t = "array" /\ \E i \in DOMAIN v.e : Present(v.e[i], Tail(path))
  ELSE /\ v.t = "object"
       /\ Head(path) \in DOMAIN v.f
       /\ Present(v.f[Head(path)], Tail(path))

RECURSIVE HasEmptyArray(_)
\* an array without elements occurs in v
HasEmptyArray(v) ==
  CASE v.t = "array" -> Len(v.e) = 0 \/ \E i \in DOMAIN v.e : HasEmptyArray(v.e[i])
    [] v.t = "object" -> \E k \in DOMAIN v.f : HasEmptyArray(v.f[k])
    [] OTHER -> FALSE

\* vraw has every field the tool's validator requires, each array with an
\* element, and none of the optional fields
RequiredOnly ==
  /\ vraw.t = "object" /\ ~HasEmptyArray(vraw)
  /\ \A r \in RequiredFields(vtool) : ~Lacks(vraw, r.path, r.ty)
  /\ \A o \in OptionalFields(vtool) : ~Present(vraw, o.path)

\* the create_order input {intent: "CAPTURE", purchase_units: [{amount:
\* {currency_code: "USD", value: "10.00"}}]}
OrderExample ==
  Obj([intent |-> Str("CAPTURE"),
       purchase_units |-> Arr(<<Obj([amount |->
         Obj([currency_code |-> Str("USD"), value |-> Str("10.00")])])>>)])

\* C13: an input with the required fields only is accepted and its output has
\* no optional field; the create_order example is returned as it is.
C13_RequiredOnlyOutput ==
  /\ (vstep = "validated" /\ RequiredOnly)
     => /\ vres.st = "ok"
        /\ \A o \in OptionalFields(vtool) : ~Present(vres.v, o.path)
  /\ validatePayPalOrder(OrderExample) = Ok(OrderExample)

\* vraw has every field the tool's validator requires other than field, each
\* array with an element
OthersValid(field) ==
  /\ vraw.t = "object" /\ ~HasEmptyArray(vraw)
  /\ \A r \in RequiredFields(vtool) : r.path # <<field>> => ~Lacks(vraw, r.path, r.ty)

\* the tool's validator checks field by exact membership in literals
ExactMembership(field, literals) ==
  /\ Get(vraw, field) \notin literals
     => vres.st = "throw" /\ vres.e.code = "InvalidParams"
  /\ (Get(vraw, field) \in literals /\ OthersValid(field))
     => vres.st = "ok" /\ Get(vres.v, field) = Get(vraw, field)

\* C14: create_order fails for an intent outside {CAPTURE, AUTHORIZE} and
\* create_product for a type outside {PHYSICAL, DIGITAL, SERVICE}; with the
\* other required fields valid a value of the set passes and is output
\* unchanged.
C14_EnumExactMembership ==
  /\ (vstep = "validated" /\ vtool = "create_order")
     => ExactMembership("intent", {Str("CAPTURE"), Str("AUTHORIZE")})
  /\ (vstep = "validated" /\ vtool = "create_product")
     => ExactMembership("type", {Str("PHYSICAL"), Str("DIGITAL"), Str("SERVICE")})

\* C14 witness: an order with intent AUTHORIZE and its other required fields
\* valid was accepted and its output carries AUTHORIZE
C14_AuthorizeAccepted ==
  /\ vstep = "validated" /\ vtool = "create_order"
  /\ Get(vraw, "intent") = Str("AUTHORIZE") /\ OthersValid("intent")
  /\ vres.st = "ok" /\ Get(vres.v, "intent") = Str("AUTHORIZE")

\* C15: the pagination validator returns an object for every input, {} for an
\* absent, non-object or empty one; the output has page_size exactly when the
\* input's is a number from 1 to 100 and page exactly when the input's is a
\* number from 1 up, each with the input's value.
C15_PaginationNeverFails ==
  (vstep = "validated" /\ vtool = "list_products")
  => LET size == Get(vraw, "page_size")
         page == Get(vraw, "page")
     IN /\ vres.st = "ok" /\ vres.v.t = "object"
        /\ (vraw.t # "object" \/ DOMAIN vraw.f = {}) => vres.v = Obj(EmptyF)
        /\ DOMAIN vres.v.f \subseteq {"page_size", "page"}
        /\ "page_size" \in DOMAIN vres.v.f
             <=> (size.t = "number" /\ size.n >= 1 /\ size.n <= 100)
        /\ "page" \in DOMAIN vres.v.f <=> (page.t = "number" /\ page.n >= 1)
        /\ \A k \in DOMAIN vres.v.f : vres.v.f[k] = Get(vraw, k)

\* C15 witness: a page_size of 500 given with page 7 left an output with page
\* 7 only
C15_OversizeDropped ==
  /\ vstep = "validated" /\ vtool = "list_products"
  /\ Get(vraw, "page_size") = Num(500) /\ Get(vraw, "page") = Num(7)
  /\ vres = Ok(Obj([page |-> Num(7)]))

\* C16: the list_products request carries page_size and page in its query:
\* the caller's value where the validator kept it (a page_size from 1 to 100,
\* a page from 1 up), else 10 and 1.
C16_QueryDefaults ==
  (vstep = "built" /\ vtool = "list_products")
  => LET keptSize == "page_size" \in DOMAIN vres.v.f
         keptPage == "page" \in DOMAIN vres.v.f
         size == Get(vraw, "page_size")
         page == Get(vraw, "page")
     IN /\ keptSize => (size.t = "number" /\ size.n >= 1 /\ size.n <= 100)
        /\ keptPage => (page.t = "number" /\ page.n >= 1)
        /\ vreq.method = "GET"
        /\ vreq.url = "https://api-m.sandbox.paypal.com/v1/catalogs/products"
                        \o "?page_size=" \o (IF keptSize THEN ToString(size.n) ELSE "10")
                        \o "&page=" \o (IF keptPage THEN ToString(page.n) ELSE "1")

\* C16 witness: {page_size: 500} was sent as page_size=10 and page=1
C16_OversizeSentAsDefault ==
  /\ vstep = "built" /\ vtool = "list_products"
  /\ vraw = Obj([page_size |-> Num(500)])
  /\ vreq.url = "https://api-m.sandbox.paypal.com/v1/catalogs/products?page_size=10&page=1"

\* the array-valued fields at the top of each validator's input
ArrayFields(name) ==
  CASE name = "create_payment" -> {"transactions"}
    [] name = "create_payout" -> {"items"}
    [] name = "create_referenced_payout" -> {"referenced_payouts"}
    [] name = "create_order" -> {"purchase_units"}
    [] name = "create_partner_referral" -> {"individual_owners"}
    [] name = "create_invoice" -> {"primary_recipients", "items"}
    [] OTHER -> {}

\* an invoice recipient validated as validatePayPalInvoice validates the first
ValidatedRecipient(recipient) ==
  IF Lacks(recipient, <<"billing_info", "email_address">>, "string")
  THEN InvalidParams("Invalid recipient information")
  ELSE Ok(Obj([billing_info |-> Obj([email_address |->
         Get(Get(recipient, "billing_info"), "email_address")])]))

\* one element of the array field of the tool's input, validated on its own
ValidatedElement(name, field, el) ==
  CASE field = "transactions" -> validateTransaction(el)
    [] field = "items" /\ name = "create_payout" -> validatePayoutItem(el)
    [] field = "referenced_payouts" -> validateReferencedPayoutItem(el)
    [] field = "purchase_units" -> validatePurchaseUnit(el)
    [] field = "individual_owners" -> validateOwner(el)
    [] field = "names" -> validateOwnerName(el)
    [] field = "primary_recipients" -> ValidatedRecipient(el)
    [] field = "items" /\ name = "create_invoice" -> validateInvoiceItem(el)

\* array out holds, in order, the validated form of each element of array in,
\* all of them valid
ElementWise(name, field, in, out) ==
  /\ in.t = "array" /\ out.t = "array"
  /\ Len(out.e) = Len(in.e)
  /\ \A i \in DOMAIN in.e :
       /\ ValidatedElement(name, field, in.e[i]).st = "ok"
       /\ out.e[i] = ValidatedElement(name, field, in.e[i]).v

\* C17: when an input is accepted, every array field of the output holds one
\* validated element per element of the input's array, in order, and every
\* element of the input's array is valid; so are the names of each owner.
C17_ArraysElementWise ==
  (vstep = "validated" /\ vres.st = "ok")
  => /\ \A field \in ArrayFields(vtool) :
          ElementWise(vtool, field, Get(vraw, field), Get(vres.v, field))
     /\ vtool = "create_partner_referral"
        => \A i \in DOMAIN Get(vraw, "individual_owners").e :
             ElementWise(vtool, "names",
                         Get(Get(vraw, "individual_owners").e[i], "names"),
                         Get(Get(vres.v, "individual_owners").e[i], "names"))

---------------------------------------------------------------------------
(* Claims about the registry and the handler's first steps (checked under  *)
(* Spec)                                                                   *)

\* invocation i ended in the default branch of the switch
UnknownToolReported(i) ==
  /\ inv[i].out.kind = "throw"
  /\ inv[i].out.e.message = "Unknown tool: " \o inv[i].name

\* C18: a list-tools response names every tool once, and the names it holds are
\* exactly the names the switch has a case for; every such name labels exactly
\* one case, whose block calls exactly one validator; every response is the same
\* array, whatever invocations came before; and an invocation that reached the
\* switch ended in its default branch exactly when its name is not a listed one.
C18_RegistryMatchesDispatch ==
  /\ listed # NotListed
     => /\ listed = ToolList
        /\ \A k, l \in DOMAIN listed : listed[k] = listed[l] => k = l
        /\ {listed[k] : k \in DOMAIN listed} = DispatchCases
  /\ \A name \in DispatchCases :
       /\ Cardinality({k \in DOMAIN CaseLabels : CaseLabels[k] = name}) = 1
       /\ \A k \in DOMAIN CaseLabels :
            CaseLabels[k] = name => Cardinality(CaseValidators(k)) = 1
  /\ \A i \in Invs :
       (Ended(i) /\ Acquired(i))
       => (UnknownToolReported(i)
             <=> inv[i].name \notin {ToolList[k] : k \in DOMAIN ToolList})

\* C18 witness: the registry was listed while one invocation of a listed tool
\* has ended with the API's answer and an invocation of an unlisted name has
\* ended in the default branch
C18_ListedAmidInvocations ==
  /\ listed = ToolList
  /\ \E i, j \in Invs :
       /\ Ended(i) /\ inv[i].name = "create_invoice" /\ inv[i].out.kind = "return"
       /\ ~inv[i].out.isError
       /\ Ended(j) /\ inv[j].name = UnknownTool /\ UnknownToolReported(j)

\* C19: a step that starts an invocation without arguments, whatever the tool
\* name, ends it at once by throwing McpError InvalidParams 'Arguments are
\* required': no token fetch was started, no token was handed to it, no request
\* was built, and the credential cache is what it was.
C19_AbsentArgumentsRejectedFirst ==
  [][\A i \in Invs :
       (inv[i].pc = "idle" /\ inv'[i].pc # "idle" /\ inv'[i].args = Undef)
       => /\ inv'[i].pc = "done"
          /\ inv'[i].out.kind = "throw"
          /\ inv'[i].out.e.cls = "McpError"
          /\ inv'[i].out.e.code = "InvalidParams"
          /\ inv'[i].out.e.message = "Arguments are required"
          /\ inv'[i].fetches = 0
          /\ inv'[i].token = Undef
          /\ inv'[i].req = NoReq
          /\ accessToken' = accessToken
          /\ fetched' = fetched]_vars

\* C19 witness: invocations without arguments were rejected with InvalidParams,
\* one of a registered tool while the cache was still empty, one of an unknown
\* name
C19_RejectedWithEmptyCache ==
  /\ ~CacheHit(accessToken) /\ fetched = {}
  /\ \E i, j \in Invs :
       /\ Ended(i) /\ inv[i].args = Undef /\ inv[i].name = "create_order"
       /\ inv[i].out.e.code = "InvalidParams" /\ inv[i].fetches = 0
       /\ Ended(j) /\ inv[j].args = Undef /\ inv[j].name = UnknownTool
       /\ inv[j].out.e.code = "InvalidParams"

\* C20: the step in which an invocation builds its upstream request gives the
\* request of get_userinfo the access_token of its validated arguments as bearer
\* token, whatever the handler's credential is, and the request of any other
\* tool the credential the cache holds at that step.
C20_BearerSource ==
  [][\A i \in Invs :
       (inv[i].req = NoReq /\ inv'[i].req # NoReq)
       => IF inv[i].name = "get_userinfo"
          THEN LET validated == validateTokenParams(inv[i].args).v
               IN /\ inv'[i].req.bearer = Get(validated, "access_token").s
                  /\ \A t \in Tokens :
                       BuildRequest(inv[i].name, validated, Str(t)).bearer
                         = inv'[i].req.bearer
          ELSE /\ CacheHit(accessToken)
               /\ inv'[i].req.bearer = accessToken.s]_vars

\* C20 witness: with tokA cached, a get_userinfo request went out with the
\* caller's token and a create_order request with tokA
C20_CallersAndCached ==
  /\ accessToken = Str("tokA")
  /\ \E i, j \in Invs :
       /\ inv[i].name = "get_userinfo" /\ inv[i].pc = "api"
       /\ inv[i].req.bearer = "userTok"
       /\ inv[j].name = "create_order" /\ inv[j].pc = "api"
       /\ inv[j].req.bearer = "tokA"

\* invocation i named a registered tool, came with arguments the tool's
\* validator accepts and was handed a token
ValidationSucceeded(i) ==
  /\ Acquired(i) /\ inv[i].name \in ToolNames
  /\ Validate(inv[i].name, inv[i].args).st = "ok"

\* C21: in every step, an invocation has made at most one API call; it makes
\* one only in the step that leaves the switch with its arguments validated, and
\* always makes one there; the step that receives the call's response or
\* failure ends the invocation by returning an envelope, the error envelope for
\* a failure, with no further call; and an invocation that ends in any other
\* step (absent arguments, failed token fetch, unknown tool, rejected
\* arguments) has made none.
C21_AtMostOneApiCall ==
  [][\A i \in Invs :
       /\ inv'[i].calls <= 1
       /\ inv'[i].calls > inv[i].calls
          => /\ inv[i].pc = "dispatch" /\ inv'[i].pc = "api"
             /\ ValidationSucceeded(i)
       /\ (inv[i].pc = "dispatch" /\ inv'[i].pc # "dispatch" /\ ValidationSucceeded(i))
          => inv'[i].pc = "api" /\ inv'[i].calls = 1
       /\ (inv[i].pc = "api" /\ inv'[i].pc # "api")
          => /\ inv'[i].pc = "done" /\ inv'[i].calls = 1
             /\ inv'[i].out.kind = "return"
             /\ inv'[i].out.isError
                <=> (\E error \in ApiFailures :
                       inv'[i].out.text = "PayPal API error: " \o ReportedMessage(error))
             /\ ~inv'[i].out.isError
                <=> (\E data \in ApiBodies : inv'[i].out.text = Stringify(data))
       /\ (inv[i].pc \notin {"api", "done"} /\ inv'[i].pc = "done")
          => inv'[i].calls = 0 /\ inv'[i].req = NoReq
    ]_vars

\* C21 witness: one invocation ended with the error envelope of its one failed
\* API call, the other ended on rejected arguments without any call
C21_FailedOnceAndNone ==
  \E i, j \in Invs :
    /\ Ended(i) /\ inv[i].calls = 1 /\ inv[i].out.kind = "return" /\ inv[i].out.isError
    /\ Ended(j) /\ Acquired(j) /\ inv[j].name \in ToolNames
    /\ Validate(inv[j].name, inv[j].args).st = "throw" /\ inv[j].calls = 0

\* C23: a step that starts an invocation with arguments for an unregistered name
\* while the cache holds no credential starts the token fetch and leaves the
\* invocation waiting for it, not rejected; when the fetch then fails, by a
\* failed HTTP call or a response without token, the invocation ends by
\* throwing the fetch's error, not the unknown-tool error; and the unknown-tool
\* error is only ever thrown by an invocation that was handed a token.
C23_FetchBeforeLookup ==
  [][\A i \in Invs :
       /\ (/\ inv[i].pc = "idle" /\ inv'[i].pc # "idle"
           /\ Truthy(inv'[i].args) /\ inv'[i].name \notin ToolNames
           /\ ~Truthy(accessToken))
          => /\ inv'[i].pc = "token" /\ inv'[i].fetches = 1
             /\ inv'[i].out = NoOutcome
       /\ (/\ inv[i].pc = "token" /\ inv'[i].pc # "token"
           /\ inv[i].name \notin ToolNames /\ ~Truthy(inv'[i].token))
          => /\ inv'[i].pc = "done" /\ inv'[i].out.kind = "throw"
             /\ inv'[i].out.e \in TokenFailures
                                    \cup {PlainError("Failed to obtain access token")}
             /\ ~UnknownToolReported(i)'
       /\ (~UnknownToolReported(i) /\ UnknownToolReported(i)')
          => inv[i].pc = "dispatch" /\ Truthy(inv[i].token)
    ]_vars

\* C23 witness: an invocation of an unregistered name, with arguments, fetched
\* a token and ended with the fetch's HTTP failure
C23_UnknownEndedByFetchFailure ==
  \E i \in Invs :
    /\ Ended(i) /\ inv[i].name = UnknownTool /\ Truthy(inv[i].args)
    /\ inv[i].fetches = 1 /\ inv[i].out.kind = "throw"
    /\ inv[i].out.e \in TokenFailures

\* the step ends invocation i while it waited for its token: getAccessToken
\* failed
FetchFailed(i) == inv[i].pc = "token" /\ inv'[i].pc = "done"

\* the step starts invocation i with arguments
StartedWithArguments(i) ==
  inv[i].pc = "idle" /\ inv'[i].pc # "idle" /\ Truthy(inv'[i].args)

\* C25 as stated: a step in which getAccessToken fails leaves no usable
\* credential in the cache, and a step that starts an invocation with arguments
\* while the cache holds none starts a token fetch.
C25_FailureLeavesCacheEmpty ==
  [][\A i \in Invs :
       /\ FetchFailed(i) => ~Truthy(accessToken')
       /\ (StartedWithArguments(i) /\ ~Truthy(accessToken))
          => inv'[i].pc = "token" /\ inv'[i].fetches = 1
    ]_vars

\* C25 amended: a step in which getAccessToken fails leaves the cache without
\* usable credential, or leaves in it, untouched, the credential another,
\* successful fetch delivered; the cache never holds anything usable but a
\* token a fetch delivered; a step that starts an invocation with arguments
\* starts a token fetch when the cache holds no usable credential, and else
\* hands over the cached one.
C25_FailureNotMemoized ==
  [][/\ Truthy(accessToken') => accessToken'.s \in fetched'
     /\ \A i \in Invs :
          /\ FetchFailed(i)
             => \/ ~Truthy(accessToken')
                \/ accessToken' = accessToken /\ accessToken.s \in fetched
          /\ (StartedWithArguments(i) /\ ~Truthy(accessToken))
             => inv'[i].pc = "token" /\ inv'[i].fetches = 1
          /\ (StartedWithArguments(i) /\ Truthy(accessToken))
             => inv'[i].fetches = 0 /\ inv'[i].token = accessToken
    ]_vars

\* C25 witness: a response without token cleared the cache and ended one
\* invocation, and the other waits for the token fetch it started
C25_RefetchAfterFailure ==
  /\ accessToken = Undef
  /\ \E i, j \in Invs :
       /\ Ended(i) /\ inv[i].out.kind = "throw"
       /\ inv[i].out.e = PlainError("Failed to obtain access token")
       /\ inv[j].pc = "token" /\ inv[j].fetches = 1 /\ Truthy(inv[j].args)

\* invocation i is under way: it waits for its token, is resumed, or waits for
\* the API's answer
Running(i) == inv[i].pc \in {"token", "dispatch", "api"}

\* C24: every invocation under way eventually ends; an ended invocation has one
\* outcome, a returned envelope or a thrown error, and nothing changes it any
\* more until it is delivered to the caller.
C24_Terminates ==
  /\ \A i \in Invs : Running(i) ~> Ended(i)
  /\ [](\A i \in Invs : Ended(i) => inv[i].out.kind \in {"return", "throw"})
  /\ [][\A i \in Invs :
          Ended(i) => (inv'[i] = inv[i] \/ inv'[i] = IdleInv)]_vars

\* C24 witness: one invocation has ended with the API's answer while the other
\* still waits for its token
C24_EndedBesideRunning ==
  \E i, j \in Invs :
    /\ Ended(i) /\ inv[i].calls = 1 /\ inv[i].out.kind = "return"
    /\ inv[j].pc = "token"

---------------------------------------------------------------------------
(* Further claims about the validators (checked under SpecV)               *)

\* C22: a validator applied to any value either returns a payload or throws an
\* McpError with code InvalidParams, never any other error.
C22_OnlyInvalidParams ==
  vstep = "validated"
  => \/ vres.st = "ok"
     \/ /\ vres.st = "throw"
        /\ vres.e.cls = "McpError"
        /\ vres.e.code = "InvalidParams"

RECURSIVE Conforms(_, _)
\* value v is valid against the JSON schema: of the schema's type, within its
\* enum and range, with every required property, and with every property and
\* element that has a schema valid against it
Conforms(v, schema) ==
  CASE schema.type = "string" ->
         /\ v.t = "string"
         /\ "enum" \in DOMAIN schema => v.s \in schema.enum
    [] schema.type = "number" ->
         /\ v.t = "number"
         /\ "minimum" \in DOMAIN schema => v.n >= schema.minimum
         /\ "maximum" \in DOMAIN schema => v.n <= schema.maximum
    [] schema.type = "object" ->
         /\ v.t = "object"
         /\ \A k \in schema.required : k \in DOMAIN v.f /\ v.f[k].t # "undefined"
         /\ \A k \in DOMAIN v.f \cap DOMAIN schema.properties :
              v.f[k].t = "undefined" \/ Conforms(v.f[k], schema.properties[k])
    [] schema.type = "array" ->
         /\ v.t = "array"
         /\ \A i \in DOMAIN v.e : Conforms(v.e[i], schema.items)

RECURSIVE OnlyAdvertised(_, _)
\* v has no property the schema does not name, at any depth
OnlyAdvertised(v, schema) ==
  CASE schema.type = "object" /\ v.t = "object" ->
         /\ DOMAIN v.f \subseteq DOMAIN schema.properties
         /\ \A k \in DOMAIN v.f : OnlyAdvertised(v.f[k], schema.properties[k])
    [] schema.type = "array" /\ v.t = "array" ->
         \A i \in DOMAIN v.e : OnlyAdvertised(v.e[i], schema.items)
    [] OTHER -> TRUE

\* C26: an argument object that is valid against the tool's advertised
\* inputSchema, made of advertised properties only and without empty array, is
\* accepted by the tool's validator.
C26_AdvertisedAccepted ==
  (/\ vstep = "validated"
   /\ Conforms(vraw, InputSchema(vtool))
   /\ OnlyAdvertised(vraw, InputSchema(vtool))
   /\ ~HasEmptyArray(vraw))
  => vres.st = "ok"

====
